---- MODULE Spec2Model ----
(***************************************************************************)
(* Model of the deterministic biomarker scoring engine of aurelia:         *)
(* src/src/aurelia/scoring/{metabolic,inflammation,oxygen}_scores.py.      *)
(*                                                                         *)
(* Python values are modelled as follows.                                  *)
(*   None        -> None where a float may stand, NoneVal as a raw value,  *)
(*                  NullResult as the result of a facade                   *)
(*   float / int -> an exact rational <<n, d>>, d > 0, in lowest terms     *)
(*   str         -> a sequence of one-character strings; the character     *)
(*                  MICRO SIGN is written "mu"                             *)
(*   dict        -> a sequence of entries in insertion order               *)
(* Arithmetic is exact; round(x, 1) is modelled as round-half-even on the  *)
(* exact value, so a result differs from the binary-float one only where   *)
(* the exact value lies on a tie (x.x5).  A value computed once in the     *)
(* source and used several times is passed as an operator argument.        *)
(***************************************************************************)
EXTENDS Integers, Sequences, FiniteSets, TLC

VARIABLES biomarkers, is_menstruating, facade, result, prev, edits,
          profile, calls, response,
          combiner, given_z, combined, interpreted,
          messages, iteration, pc, requests, reply, returned, forced

caller_vars == <<biomarkers, is_menstruating, facade, result, prev, edits>>
api_vars == <<profile, calls, response>>
unit_vars == <<combiner, given_z, combined, interpreted>>
coach_vars == <<messages, iteration, pc, requests, reply, returned, forced>>
vars == <<biomarkers, is_menstruating, facade, result, prev, edits,
          profile, calls, response,
          combiner, given_z, combined, interpreted,
          messages, iteration, pc, requests, reply, returned, forced>>

\* Python None where an Optional[float] is expected (a rational is a pair)
None == <<>>

-----------------------------------------------------------------------------
(* Exact rational arithmetic standing for Python float arithmetic.         *)

Abs(x) == IF x < 0 THEN -x ELSE x

\* the element of a singleton set.  The({e(x) : x \in {v}}) is e with the local
\* x assigned the value of v once, as an assignment statement does.
The(S) == CHOOSE x \in S : TRUE

SetMin(S) == CHOOSE x \in S : \A y \in S : x <= y
SetMax(S) == CHOOSE x \in S : \A y \in S : y <= x

RECURSIVE Gcd(_, _)
Gcd(a, b) == IF b = 0 THEN a ELSE Gcd(b, a % b)

Reduce(n, d, g) ==
    IF d < 0 THEN <<(-n) \div g, (-d) \div g>> ELSE <<n \div g, d \div g>>

Rat(n, d) == Reduce(n, d, Gcd(Abs(n), Abs(d)))

Whole(n) == <<n, 1>>

\* The floats that are not numbers of the rational line have denominator 0:
\* float('nan'), float('inf') and float('-inf').
NaN == <<0, 0>>
PosInf == <<1, 0>>
NegInf == <<-1, 0>>
IsFinite(a) == a[2] # 0
Sign(n) == IF n > 0 THEN 1 ELSE IF n < 0 THEN -1 ELSE 0
RNeg(a) == <<-a[1], a[2]>>

\* a + b where a or b is not finite: nan + x = nan, inf + -inf = nan,
\* inf + x = inf
SpecialAdd(a, b) ==
    IF a = NaN \/ b = NaN THEN NaN
    ELSE IF ~IsFinite(a) /\ ~IsFinite(b) THEN (IF a = b THEN a ELSE NaN)
    ELSE IF ~IsFinite(a) THEN a ELSE b

\* a * b where a or b is not finite: nan * x = nan, inf * 0 = nan
SpecialMul(a, b) ==
    IF a[1] = 0 \/ b[1] = 0 THEN NaN ELSE <<Sign(a[1]) * Sign(b[1]), 0>>

\* a / b where a or b is not finite and b is not zero: inf / inf = nan,
\* inf / x = inf with the sign of the quotient, x / inf = 0
SpecialDiv(a, b) ==
    IF a = NaN \/ b = NaN THEN NaN
    ELSE IF ~IsFinite(a) /\ ~IsFinite(b) THEN NaN
    ELSE IF ~IsFinite(a) THEN <<Sign(a[1]) * Sign(b[1]), 0>>
    ELSE Whole(0)

\* a < b where a or b is not finite: every comparison with nan is false
SpecialLt(a, b) ==
    a # NaN /\ b # NaN /\ a # b /\ (a = NegInf \/ b = PosInf)

RAdd(a, b) ==
    IF IsFinite(a) /\ IsFinite(b)
    THEN Rat(a[1] * b[2] + b[1] * a[2], a[2] * b[2]) ELSE SpecialAdd(a, b)
RSub(a, b) ==
    IF IsFinite(a) /\ IsFinite(b)
    THEN Rat(a[1] * b[2] - b[1] * a[2], a[2] * b[2]) ELSE SpecialAdd(a, RNeg(b))
RMulReduced(a, b, g1, g2) ==
    <<(a[1] \div g1) * (b[1] \div g2), (a[2] \div g2) * (b[2] \div g1)>>
RMul(a, b) ==
    IF IsFinite(a) /\ IsFinite(b)
    THEN RMulReduced(a, b, Gcd(Abs(a[1]), b[2]), Gcd(Abs(b[1]), a[2]))
    ELSE SpecialMul(a, b)
Recip(b) == IF b[1] < 0 THEN <<-b[2], -b[1]>> ELSE <<b[2], b[1]>>
\* The source divides by the constants 18.0, 22.5, 10, 1000 and the standard
\* deviations, by a total weight it has tested to be positive, and by the
\* truthy (non-zero) hdl_mgdl and apoa1_mgdl: the divisor is never zero.
RDiv(a, b) ==
    IF IsFinite(a) /\ IsFinite(b) THEN RMul(a, Recip(b)) ELSE SpecialDiv(a, b)
RLt(a, b) ==
    IF IsFinite(a) /\ IsFinite(b) THEN a[1] * b[2] < b[1] * a[2] ELSE SpecialLt(a, b)
RLe(a, b) ==
    IF IsFinite(a) /\ IsFinite(b) THEN a[1] * b[2] <= b[1] * a[2]
    ELSE a # NaN /\ b # NaN /\ (a = b \/ SpecialLt(a, b))
\* max(a, b) and min(a, b) keep the first argument unless the second compares
\* greater (smaller): max(0, nan) = 0
RMax(a, b) == IF RLt(a, b) THEN b ELSE a
RMin(a, b) == IF RLt(b, a) THEN b ELSE a
RAbs(a) == <<Abs(a[1]), a[2]>>
IsZero(a) == a[1] = 0 /\ a[2] # 0

\* the tenth nearest to q/10 + r/(10 d), 0 <= r < d: ties go to the even tenth
RoundTenth(q, r, d) ==
    IF 2 * r > d \/ (2 * r = d /\ q % 2 = 1) THEN Rat(q + 1, 10) ELSE Rat(q, 10)

\* round(x, 1)
Round1(x) ==
    IF IsFinite(x) THEN RoundTenth((10 * x[1]) \div x[2], (10 * x[1]) % x[2], x[2])
    ELSE x

\* Python truthiness of an Optional[float]: None and 0.0 are false
Truthy(v) == v # None /\ ~IsZero(v)

\* the score left as computed, without max(0, min(100, x)): the variant
\* Clamp100 is compared with
Unclamped(x) == x

\* max(0, min(100, x))
Clamp100(x) == RMax(Whole(0), RMin(Whole(100), x))

-----------------------------------------------------------------------------
(* Characters and strings.                                                 *)

Digits == {"0", "1", "2", "3", "4", "5", "6", "7", "8", "9"}

DigitVal(c) ==
    CASE c = "0" -> 0 [] c = "1" -> 1 [] c = "2" -> 2 [] c = "3" -> 3
      [] c = "4" -> 4 [] c = "5" -> 5 [] c = "6" -> 6 [] c = "7" -> 7
      [] c = "8" -> 8 [] c = "9" -> 9

UpperCase == <<"A", "B", "C", "D", "E", "F", "G", "H", "I", "J", "K", "L", "M",
               "N", "O", "P", "Q", "R", "S", "T", "U", "V", "W", "X", "Y", "Z">>
LowerCase == <<"a", "b", "c", "d", "e", "f", "g", "h", "i", "j", "k", "l", "m",
               "n", "o", "p", "q", "r", "s", "t", "u", "v", "w", "x", "y", "z">>
Uppers == {UpperCase[i] : i \in DOMAIN UpperCase}
Lowers == {LowerCase[i] : i \in DOMAIN LowerCase}

\* str.lower() on one character
LowerChar(c) ==
    IF c \in Uppers THEN LowerCase[CHOOSE i \in DOMAIN UpperCase : UpperCase[i] = c]
    ELSE c

\* str.lower()
Lower(s) == [i \in 1..Len(s) |-> LowerChar(s[i])]

\* s[i..] starts with pat
StartsAt(s, i, pat) ==
    /\ i + Len(pat) - 1 <= Len(s)
    /\ \A k \in 1..Len(pat) : s[i + k - 1] = pat[k]

\* pat in s
Contains(s, pat) == \E i \in 1..(Len(s) - Len(pat) + 1) : StartsAt(s, i, pat)

\* str.replace(pat, rep) for a non-empty pat: every non-overlapping
\* occurrence, left to right; hits are the occurrences at or after i
RECURSIVE ReplaceFrom(_, _, _, _)
ReplaceAt(s, i, pat, rep, hits) ==
    IF hits = {} THEN SubSeq(s, i, Len(s))
    ELSE SubSeq(s, i, SetMin(hits) - 1) \o rep
         \o ReplaceFrom(s, SetMin(hits) + Len(pat), pat, rep)
ReplaceFrom(s, i, pat, rep) ==
    ReplaceAt(s, i, pat, rep, {j \in i..Len(s) : StartsAt(s, j, pat)})

Replace(s, pat, rep) == ReplaceFrom(s, 1, pat, rep)

\* the part of s between its first and last position in nb
Between(s, nb) == IF nb = {} THEN <<>> ELSE SubSeq(s, SetMin(nb), SetMax(nb))

\* str.strip(): leading and trailing blanks removed
Strip(s) == Between(s, {i \in 1..Len(s) : s[i] # " "})

\* the end (exclusive) of the maximal run of characters of cs starting at i
RunEnd(s, i, cs) ==
    SetMin({j \in i..(Len(s) + 1) : j = Len(s) + 1 \/ s[j] \notin cs})

\* the value of the digit string s[i..j-1]
RECURSIVE DigitsVal(_, _, _)
DigitsVal(s, i, j) ==
    IF j <= i THEN 0 ELSE 10 * DigitsVal(s, i, j - 1) + DigitVal(s[j - 1])

RECURSIVE Pow10(_)
Pow10(k) == IF k = 0 THEN 1 ELSE 10 * Pow10(k - 1)

-----------------------------------------------------------------------------
(* Raw biomarker values: None, a number, or a string.                      *)

NoneVal == [t |-> "none"]
Num(q) == [t |-> "num", v |-> q]
Str(s) == [t |-> "str", s |-> s]
\* an int too large for a float (2**1024 or more in magnitude), of sign sg
HugeInt(sg) == [t |-> "int", sign |-> sg]

\* float(x) raised OverflowError
Overflow == <<"OverflowError">>

\* the decimal literal of stripped s: sign sg, integer digits s[j0..a-1],
\* fraction digits s[a+1..b-1], and nothing after position b - 1
DecimalValue(s, sg, j0, a, b) ==
    IF b # Len(s) + 1 \/ (b - j0 = 0) \/ (b - j0 = 1 /\ b > a) THEN None
    ELSE IF b > a
    THEN Rat(sg * (DigitsVal(s, j0, a) * Pow10(b - a - 1) + DigitsVal(s, a + 1, b)),
             Pow10(b - a - 1))
    ELSE Whole(sg * DigitsVal(s, j0, a))

DecimalFraction(s, sg, j0, a) ==
    DecimalValue(s, sg, j0, a,
                 IF a <= Len(s) /\ s[a] = "." THEN RunEnd(s, a + 1, Digits) ELSE a)

DecimalDigits(s, sg, j0) == DecimalFraction(s, sg, j0, RunEnd(s, j0, Digits))

\* the literals float() accepts besides decimals, in any casing
FloatWord(sg, word) ==
    IF word \in {<<"i", "n", "f">>, <<"i", "n", "f", "i", "n", "i", "t", "y">>} THEN <<sg, 0>>
    ELSE IF word = <<"n", "a", "n">> THEN NaN
    ELSE None

FloatUnsigned(s, sg, j0) ==
    IF j0 <= Len(s) /\ s[j0] \in {"i", "I", "n", "N"}
    THEN FloatWord(sg, Lower(SubSeq(s, j0, Len(s))))
    ELSE DecimalDigits(s, sg, j0)

DecimalSigned(s) ==
    FloatUnsigned(s, IF Len(s) >= 1 /\ s[1] = "-" THEN -1 ELSE 1,
                  IF Len(s) >= 1 /\ s[1] \in {"-", "+"} THEN 2 ELSE 1)

\* float(s): [sign] digits [. digits] | [sign] . digits | [sign] inf |
\* [sign] infinity | [sign] nan, surrounding blanks ignored; None stands for
\* ValueError.  Exponent and underscore forms lie outside the alphabet of the
\* modelled inputs.
FloatOf(str) == The({DecimalSigned(s) : s \in {Strip(str)}})

\* Where re.search(r'[-+]?\d*\.?\d+', s) matches when tried at a position
\* whose digits start at j0 and end before a: the end (exclusive) of the
\* match, or 0 when there is none there.
NumMatchAfterInt(s, j0, a) ==
    IF a + 1 <= Len(s) /\ s[a] = "." /\ s[a + 1] \in Digits
    THEN RunEnd(s, a + 1, Digits)
    ELSE IF a > j0 THEN a ELSE 0

NumMatchFrom(s, j0) == NumMatchAfterInt(s, j0, RunEnd(s, j0, Digits))

NumMatchEnd(s, i) == NumMatchFrom(s, IF s[i] \in {"-", "+"} THEN i + 1 ELSE i)

\* re.search(r'[-+]?\d*\.?\d+', s): the leftmost match as <<start, end>>, or <<>>
NumMatchAt(s, starts) ==
    IF starts = {} THEN <<>> ELSE <<SetMin(starts), NumMatchEnd(s, SetMin(starts))>>

NumSearch(s) == NumMatchAt(s, {i \in 1..Len(s) : NumMatchEnd(s, i) # 0})

MatchValue(s, m) == IF m = <<>> THEN None ELSE FloatOf(SubSeq(s, m[1], m[2] - 1))

\* float(match.group()) of the leftmost match, None without a match
RegexNumber(s) == MatchValue(s, NumSearch(s))

\* re.search(r'[cs]+', s).group(): the leftmost maximal run of characters of
\* cs, or the empty string (unit = '') without a match
RunFrom(s, starts, cs) ==
    IF starts = {} THEN <<>>
    ELSE SubSeq(s, SetMin(starts), RunEnd(s, SetMin(starts), cs) - 1)

FirstRun(s, cs) == RunFrom(s, {i \in 1..Len(s) : s[i] \in cs}, cs)

\* dict.get(key): the value stored under exactly this key, NoneVal if absent
\* (the default '' of biomarkers.get(key, '') parses like None)
ValueAt(panel, hits) == IF hits = {} THEN NoneVal ELSE panel[SetMin(hits)].value

Get(panel, key) == ValueAt(panel, {i \in 1..Len(panel) : panel[i].key = key})

-----------------------------------------------------------------------------
(* MetabolicScore                                                          *)

MET_MARKERS == <<"homa", "tg_hdl", "apob_a1", "hba1c">>

MET_POPULATION_STATS ==
    [homa    |-> [mean |-> <<73, 50>>, sd |-> <<4, 5>>],
     tg_hdl  |-> [mean |-> <<2, 1>>,   sd |-> <<1, 1>>],
     apob_a1 |-> [mean |-> <<9, 10>>,  sd |-> <<3, 10>>],
     hba1c   |-> [mean |-> <<53, 10>>, sd |-> <<2, 5>>]]

MET_WEIGHTS ==
    [homa |-> <<2, 5>>, tg_hdl |-> <<3, 10>>, apob_a1 |-> <<1, 5>>, hba1c |-> <<1, 10>>]

MET_SCALE == 15

MET_SUFFIXES ==
    <<<<" ", "m", "g", "/", "d", "L">>, <<" ", "m", "g", "/", "d", "l">>, <<"m", "g", "/", "d", "L">>, <<"m", "g", "/", "d", "l">>,
      <<" ", "g", "/", "L">>, <<" ", "g", "/", "l">>, <<"g", "/", "L">>, <<"g", "/", "l">>,
      <<" ", "m", "m", "o", "l", "/", "L">>, <<" ", "m", "m", "o", "l", "/", "l">>, <<"m", "m", "o", "l", "/", "L">>, <<"m", "m", "o", "l", "/", "l">>,
      <<" ", "mu", "I", "U", "/", "m", "L">>, <<" ", "u", "I", "U", "/", "m", "L">>, <<"%">>>>

\* the suffix loop, "value_str = value_str.replace(suffix, '').strip()", over
\* the suffixes lo..hi in order: those of the first half, then the others
RECURSIVE StripSuffixes(_, _, _)
StripSuffixes(s, lo, hi) ==
    IF lo = hi THEN Strip(Replace(s, MET_SUFFIXES[lo], <<>>))
    ELSE The({StripSuffixes(t, (lo + hi) \div 2 + 1, hi) :
                 t \in {StripSuffixes(s, lo, (lo + hi) \div 2)}})

\* MetabolicScore.parse_biomarker; str(number) followed by float() gives the
\* number back, so a non-zero number parses to itself, and gives inf for the
\* digits of an int too large for a float
met_parse_biomarker(value) ==
    IF value.t = "none" THEN None
    ELSE IF value.t = "num" THEN (IF IsZero(value.v) THEN None ELSE value.v)
    ELSE IF value.t = "int" THEN <<value.sign, 0>>
    ELSE IF value.s = <<>> THEN None
    ELSE The({FloatOf(value_str) :
                 value_str \in {StripSuffixes(Strip(value.s), 1, Len(MET_SUFFIXES))}})

K_fasting_glucose == <<"f", "a", "s", "t", "i", "n", "g", "_", "g", "l", "u", "c", "o", "s", "e">>
K_fasting_insulin == <<"f", "a", "s", "t", "i", "n", "g", "_", "i", "n", "s", "u", "l", "i", "n">>
K_triglycerides == <<"t", "r", "i", "g", "l", "y", "c", "e", "r", "i", "d", "e", "s">>
K_HDL_cholesterol == <<"H", "D", "L", "_", "c", "h", "o", "l", "e", "s", "t", "e", "r", "o", "l">>
K_ApoB == <<"A", "p", "o", "B">>
K_ApoA1 == <<"A", "p", "o", "A", "1">>
K_HbA1c == <<"H", "b", "A", "1", "c">>

GLUCOSE_LIMIT == 20
GLUCOSE_FACTOR == 18
TG_LIMIT == 10
LIPID_LIMIT == 5
GL_FACTOR == 100

\* "if val and val > 20: val / 18.0 elif val: val else: None"
GlucoseToMmol(val) ==
    IF Truthy(val) /\ RLt(Whole(GLUCOSE_LIMIT), val) THEN RDiv(val, Whole(GLUCOSE_FACTOR))
    ELSE IF Truthy(val) THEN val ELSE None

\* a g/L reading scaled by 10 instead of 100: the variant GramsPerLitreToMgdl
\* is compared with
GramsTimesTen(val, limit) ==
    IF Truthy(val) /\ RLt(val, Whole(limit)) THEN RMul(val, Whole(10))
    ELSE IF Truthy(val) THEN val ELSE None

\* "if val and val < limit: val * 100 elif val: val else: None"
GramsPerLitreToMgdl(val, limit) ==
    IF Truthy(val) /\ RLt(val, Whole(limit)) THEN RMul(val, Whole(GL_FACTOR))
    ELSE IF Truthy(val) THEN val ELSE None

met_convert_units(panel) ==
    [glucose_mmol |-> GlucoseToMmol(met_parse_biomarker(Get(panel, K_fasting_glucose))),
     insulin_u    |-> met_parse_biomarker(Get(panel, K_fasting_insulin)),
     tg_mgdl      |-> GramsPerLitreToMgdl(
                          met_parse_biomarker(Get(panel, K_triglycerides)), TG_LIMIT),
     hdl_mgdl     |-> GramsPerLitreToMgdl(
                          met_parse_biomarker(Get(panel, K_HDL_cholesterol)), LIPID_LIMIT),
     apob_mgdl    |-> GramsPerLitreToMgdl(
                          met_parse_biomarker(Get(panel, K_ApoB)), LIPID_LIMIT),
     apoa1_mgdl   |-> GramsPerLitreToMgdl(
                          met_parse_biomarker(Get(panel, K_ApoA1)), LIPID_LIMIT),
     hba1c        |-> met_parse_biomarker(Get(panel, K_HbA1c))]

\* "if a and b: x / y else: None"
RatioOf(a, b) == IF Truthy(a) /\ Truthy(b) THEN RDiv(a, b) ELSE None

\* HOMA-IR computed whenever both operands are there, 0 included: the
\* variant HomaOf is compared with
HomaOfPresent(g, i) ==
    IF g # None /\ i # None THEN RDiv(RMul(g, i), <<45, 2>>) ELSE None

\* HOMA-IR: (glucose_mmol * insulin_u) / 22.5
HomaOf(g, i) ==
    IF Truthy(g) /\ Truthy(i) THEN RDiv(RMul(g, i), <<45, 2>>) ELSE None

calculate_derived_markers(values) ==
    [homa    |-> HomaOf(values.glucose_mmol, values.insulin_u),
     tg_hdl  |-> RatioOf(values.tg_mgdl, values.hdl_mgdl),
     apob_a1 |-> RatioOf(values.apob_mgdl, values.apoa1_mgdl)]

\* the derived markers with HbA1c never passed through: the variant WithHba1c
\* is compared with
WithoutHba1c(d, hba1c) ==
    [homa |-> d.homa, tg_hdl |-> d.tg_hdl, apob_a1 |-> d.apob_a1, hba1c |-> None]

\* compute_metabolic_score lines 251-256: the derived markers plus HbA1c,
\* which is added only when truthy (derived.get('hba1c') is None otherwise)
WithHba1c(d, hba1c) ==
    [homa |-> d.homa, tg_hdl |-> d.tg_hdl, apob_a1 |-> d.apob_a1,
     hba1c |-> IF Truthy(hba1c) THEN hba1c ELSE None]

met_derived(values) == WithHba1c(calculate_derived_markers(values), values.hba1c)

\* a z-score that penalises both tails, abs(z): the variant PositiveZ and
\* NegativeZ are compared with
TwoSidedZ(value, mean, sd) ==
    The({RAbs(z) : z \in {RDiv(RSub(value, mean), sd)}})

\* max(0, (value - mean) / sd)
PositiveZ(value, mean, sd) ==
    The({RMax(Whole(0), z) : z \in {RDiv(RSub(value, mean), sd)}})

\* abs(min(0, (value - mean) / sd))
NegativeZ(value, mean, sd) ==
    The({RAbs(RMin(Whole(0), z)) : z \in {RDiv(RSub(value, mean), sd)}})

met_calculate_z_scores(derived) ==
    [m \in {"homa", "tg_hdl", "apob_a1", "hba1c"} |->
        IF derived[m] # None
        THEN PositiveZ(derived[m], MET_POPULATION_STATS[m].mean,
                       MET_POPULATION_STATS[m].sd)
        ELSE None]

\* "penalty += WEIGHTS[marker] * z" over the markers ms[k..] whose z-score is
\* not None, starting from acc
RECURSIVE WeightedSum(_, _, _, _, _)
WeightedSum(ms, z, w, k, acc) ==
    IF k > Len(ms) THEN acc
    ELSE The({WeightedSum(ms, z, w, k + 1, a) :
                 a \in {IF z[ms[k]] # None THEN RAdd(acc, RMul(w[ms[k]], z[ms[k]]))
                        ELSE acc}})

\* "total_weight += WEIGHTS[marker]" over the same markers
RECURSIVE WeightUsed(_, _, _, _, _)
WeightUsed(ms, z, w, k, acc) ==
    IF k > Len(ms) THEN acc
    ELSE The({WeightUsed(ms, z, w, k + 1, a) :
                 a \in {IF z[ms[k]] # None THEN RAdd(acc, w[ms[k]]) ELSE acc}})

\* a count of the penalised markers only (z > 0): the variant CountUsed is
\* compared with
CountPenalised(ms, z) ==
    Cardinality({k \in 1..Len(ms) : z[ms[k]] # None /\ RLt(Whole(0), z[ms[k]])})

\* markers_used
CountUsed(ms, z) == Cardinality({k \in 1..Len(ms) : z[ms[k]] # None})

\* raw_score = 100 - scale * penalty; round(max(0, min(100, raw_score)), 1)
ScoreOf(penalty, scale) ==
    The({Round1(final_score) :
            final_score \in {Clamp100(raw_score) :
                raw_score \in {RSub(Whole(100), RMul(Whole(scale), penalty))}}})

\* the penalty left as summed, whatever weight was used: the variant
\* Renormalize is compared with
NotRenormalized(penalty, total_weight) == penalty

\* "if total_weight > 0 and total_weight < 1.0: penalty = penalty / total_weight"
Renormalize(penalty, total_weight) ==
    IF RLt(Whole(0), total_weight) /\ RLt(total_weight, Whole(1))
    THEN RDiv(penalty, total_weight) ELSE penalty

met_score_from(penalty, total_weight, markers_used) ==
    IF markers_used = 0 THEN <<None, 0>>
    ELSE The({<<ScoreOf(p, MET_SCALE), markers_used>> :
                 p \in {Renormalize(penalty, total_weight)}})

\* MetabolicScore.calculate_score: <<score, markers_used>>
met_calculate_score(z_scores) ==
    The({met_score_from(penalty, total_weight, markers_used) :
            penalty \in {WeightedSum(MET_MARKERS, z_scores, MET_WEIGHTS, 1, Whole(0))},
            total_weight \in {WeightUsed(MET_MARKERS, z_scores, MET_WEIGHTS, 1, Whole(0))},
            markers_used \in {CountUsed(MET_MARKERS, z_scores)}})

\* "score > bound": the variant AtLeast is compared with
MoreThan(score, bound) == RLt(Whole(bound), score)

\* "score >= bound"
AtLeast(score, bound) == RLe(Whole(bound), score)

MET_OPTIMAL == 85
MET_GOOD == 65

\* the dash of two summaries is written "-" here
met_get_interpretation(score) ==
    IF AtLeast(score, MET_OPTIMAL) THEN
        [level |-> "optimal",
         description |-> "Low fasting insulin, stable glucose, low TG/HDL, good ApoB/A1 ratio",
         summary |->
           "Your body efficiently maintains stable glucose and lipid levels with minimal insulin. Excellent metabolic flexibility - your cells respond well to insulin and energy balance is stable."]
    ELSE IF AtLeast(score, MET_GOOD) THEN
        [level |-> "good",
         description |-> "Slightly elevated fasting insulin or TG/HDL ratio",
         summary |->
           "Your body is starting to require more insulin to maintain balance. Improving sleep, stress management, and meal timing could help."]
    ELSE
        [level |-> "needs_improvement",
         description |-> "High insulin, high TG/HDL, elevated HbA1c and ApoB/A1 ratio",
         summary |->
           "Your metabolism is less efficient - your body needs more insulin to control glucose, and lipid handling shows early resistance. This can precede prediabetes or cardiovascular risk."]

\* the facades return None as NullResult
NullResult == [null |-> TRUE]

met_result(derived, score, markers_used, interpretation) ==
    [score |-> score, markers_used |-> markers_used,
     level |-> interpretation.level,
     description |-> interpretation.description,
     summary |-> interpretation.summary,
     components |-> [homa_ir |-> derived.homa,
                     tg_hdl_ratio |-> derived.tg_hdl,
                     apob_a1_ratio |-> derived.apob_a1,
                     hba1c |-> derived.hba1c]]

\* compute_metabolic_score from "if score is None: return None" on
met_finish(derived, sc) ==
    IF sc[1] = None THEN NullResult
    ELSE met_result(derived, sc[1], sc[2], met_get_interpretation(sc[1]))

met_score_derived(derived) ==
    The({met_finish(derived, sc) :
            sc \in {met_calculate_score(z_scores) :
                z_scores \in {met_calculate_z_scores(derived)}}})

compute_metabolic_score(panel) ==
    The({met_score_derived(derived) :
            derived \in {met_derived(values) :
                values \in {met_convert_units(panel)}}})

-----------------------------------------------------------------------------
(* Marker extraction shared in shape by InflammationScore and OxygenScore  *)

\* parse_biomarker of both classes: float(value) for a number, the regex
\* number for a string
regex_parse_biomarker(value) ==
    IF value.t = "none" THEN None
    ELSE IF value.t = "num" THEN value.v
    ELSE IF value.t = "int" THEN Overflow
    ELSE RegexNumber(value.s)

\* biomarker_key.lower().replace(' ', '_')
NormKey(key) == Replace(Lower(key), <<" ">>, <<"_">>)

\* the unit text handed to convert_units: '' unless the value is a string
UnitOf(value, unitChars) ==
    IF value.t = "str" THEN FirstRun(value.s, unitChars) ELSE <<>>

\* "for biomarker_key, biomarker_value in biomarkers.items()": the first entry
\* whose normalised key equals the alias and whose value parses; 0 when the
\* loop ends without a break
FirstOf(hits) == IF hits = {} THEN 0 ELSE SetMin(hits)

FindEntry(panel, alias) ==
    FirstOf({i \in 1..Len(panel) :
                /\ NormKey(panel[i].key) = alias
                /\ regex_parse_biomarker(panel[i].value) # None})

\* a lookup in which the last alias that finds an entry wins: the variant
\* ResolveAmong is compared with
ResolveLast(panel, aliases, found) ==
    IF found = {} THEN 0 ELSE FindEntry(panel, aliases[SetMax(found)])

\* "for key in possible_keys": the entry found for the first alias that
\* finds one; 0 when no alias does
ResolveAmong(panel, aliases, found) ==
    IF found = {} THEN 0 ELSE FindEntry(panel, aliases[SetMin(found)])

ResolveKey(panel, aliases) ==
    ResolveAmong(panel, aliases,
                 {a \in 1..Len(aliases) : FindEntry(panel, aliases[a]) # 0})

\* the facades return None as NullResult, and end in an exception as Raised
Raised == [error |-> "OverflowError"]

\* an extractor that has met a value float() cannot convert
Raises(markers) == \E m \in DOMAIN markers : markers[m] = Overflow

\* len(dict)
NumResolved(markers) == Cardinality({m \in DOMAIN markers : markers[m] # None})

\* calculate_score of both classes: <<score, markers_used>>, (0.0, 0) when no
\* marker is used; the penalty is not divided by the weight used
raw_score_from(penalty, markers_used, scale) ==
    IF markers_used = 0 THEN <<Whole(0), 0>>
    ELSE <<ScoreOf(penalty, scale), markers_used>>

-----------------------------------------------------------------------------
(* InflammationScore                                                       *)

INF_MARKERS == <<"hscrp", "esr", "ferritin", "wbc">>

PREMENOPAUSAL_MEANS ==
    [hscrp |-> <<4, 5>>, esr |-> <<12, 1>>, ferritin |-> <<35, 1>>, wbc |-> <<13, 2>>]
PREMENOPAUSAL_SDS ==
    [hscrp |-> <<4, 5>>, esr |-> <<8, 1>>, ferritin |-> <<20, 1>>, wbc |-> <<2, 1>>]
POSTMENOPAUSAL_MEANS ==
    [hscrp |-> <<3, 2>>, esr |-> <<20, 1>>, ferritin |-> <<100, 1>>, wbc |-> <<13, 2>>]
POSTMENOPAUSAL_SDS ==
    [hscrp |-> <<1, 1>>, esr |-> <<10, 1>>, ferritin |-> <<50, 1>>, wbc |-> <<2, 1>>]

INF_WEIGHTS ==
    [hscrp |-> <<2, 5>>, esr |-> <<1, 4>>, ferritin |-> <<1, 5>>, wbc |-> <<3, 20>>]

INF_SEVERITY_SCALE == 18

INF_KEY_MAPPINGS ==
    [hscrp    |-> <<<<"h", "s", "c", "r", "p">>, <<"h", "s", "_", "c", "r", "p">>, <<"c", "r", "p">>, <<"c", "_", "r", "e", "a", "c", "t", "i", "v", "e", "_", "p", "r", "o", "t", "e", "i", "n">>, <<"h", "s", "C", "R", "P">>>>,
     esr      |-> <<<<"e", "s", "r">>, <<"s", "e", "d", "_", "r", "a", "t", "e">>, <<"s", "e", "d", "i", "m", "e", "n", "t", "a", "t", "i", "o", "n", "_", "r", "a", "t", "e">>>>,
     ferritin |-> <<<<"f", "e", "r", "r", "i", "t", "i", "n">>, <<"s", "e", "r", "u", "m", "_", "f", "e", "r", "r", "i", "t", "i", "n">>>>,
     wbc      |-> <<<<"w", "b", "c">>, <<"w", "h", "i", "t", "e", "_", "b", "l", "o", "o", "d", "_", "c", "e", "l", "l", "s">>, <<"l", "e", "u", "c", "o", "c", "y", "t", "e", "s">>, <<"l", "e", "u", "k", "o", "c", "y", "t", "e", "s">>>>]

INF_KEY_CHARS ==
    [hscrp |-> <<"h", "s", "c", "r", "p">>, esr |-> <<"e", "s", "r">>, ferritin |-> <<"f", "e", "r", "r", "i", "t", "i", "n">>, wbc |-> <<"w", "b", "c">>]

\* r'[a-zA-Z/]+'
INF_UNIT_CHARS == Lowers \cup Uppers \cup {"/"}

INF_MGDL_FACTOR == 10
INF_MIN_MARKERS == 2
INF_BAND_OPTIMAL == 80
INF_BAND_GOOD == 60

inf_convert_lower(value, marker_lower, unit_lower) ==
    IF Contains(marker_lower, <<"h", "s", "c", "r", "p">>) \/ Contains(marker_lower, <<"c", "r", "p">>)
    THEN (IF Contains(unit_lower, <<"m", "g", "/", "d", "l">>)
          THEN RMul(value, Whole(INF_MGDL_FACTOR)) ELSE value)
    ELSE value

\* InflammationScore.convert_units(value, marker, unit)
inf_convert_units(value, marker, unit) ==
    The({inf_convert_lower(value, marker_lower, unit_lower) :
            marker_lower \in {Lower(INF_KEY_CHARS[marker])},
            unit_lower \in {Lower(unit)}})

inf_value_of(value, marker) ==
    The({IF parsed_value = Overflow THEN Overflow
         ELSE inf_convert_units(parsed_value, marker, unit) :
            parsed_value \in {regex_parse_biomarker(value)},
            unit \in {UnitOf(value, INF_UNIT_CHARS)}})

inf_extract_at(panel, marker, i) ==
    IF i = 0 THEN None ELSE inf_value_of(panel[i].value, marker)

\* InflammationScore.extract_inflammation_biomarkers: canonical key -> float,
\* None for a key that is not in the returned dict
extract_inflammation_biomarkers(panel) ==
    [m \in {"hscrp", "esr", "ferritin", "wbc"} |->
        inf_extract_at(panel, m, ResolveKey(panel, INF_KEY_MAPPINGS[m]))]

\* z-scores that penalise the low tail instead of the high one: the variant
\* inf_z_scores_with is compared with
inf_z_scores_low(markers, means, sds) ==
    [m \in {"hscrp", "esr", "ferritin", "wbc"} |->
        IF markers[m] # None THEN NegativeZ(markers[m], means[m], sds[m]) ELSE None]

inf_z_scores_with(markers, means, sds) ==
    [m \in {"hscrp", "esr", "ferritin", "wbc"} |->
        IF markers[m] # None THEN PositiveZ(markers[m], means[m], sds[m]) ELSE None]

\* the z-scores with the two reference tables exchanged: the variant
\* inf_calculate_z_scores is compared with
inf_z_scores_exchanged(markers, menstruating) ==
    inf_z_scores_with(markers,
        IF menstruating THEN POSTMENOPAUSAL_MEANS ELSE PREMENOPAUSAL_MEANS,
        IF menstruating THEN POSTMENOPAUSAL_SDS ELSE PREMENOPAUSAL_SDS)

\* InflammationScore.calculate_z_scores
inf_calculate_z_scores(markers, menstruating) ==
    inf_z_scores_with(markers,
        IF menstruating THEN PREMENOPAUSAL_MEANS ELSE POSTMENOPAUSAL_MEANS,
        IF menstruating THEN PREMENOPAUSAL_SDS ELSE POSTMENOPAUSAL_SDS)

\* InflammationScore.calculate_score
inf_calculate_score(z_scores) ==
    The({raw_score_from(penalty, markers_used, INF_SEVERITY_SCALE) :
            penalty \in {WeightedSum(INF_MARKERS, z_scores, INF_WEIGHTS, 1, Whole(0))},
            markers_used \in {CountUsed(INF_MARKERS, z_scores)}})

inf_get_interpretation(score) ==
    IF AtLeast(score, INF_BAND_OPTIMAL) THEN
        [level |-> "optimal",
         description |-> "Low inflammation, excellent recovery capacity",
         summary |->
           "Your body shows excellent recovery capacity and low baseline inflammation. You're adapting well to training and lifestyle stress."]
    ELSE IF AtLeast(score, INF_BAND_GOOD) THEN
        [level |-> "good",
         description |-> "Mild systemic stress or recent inflammation",
         summary |->
           "Slight inflammation may indicate recent intense training, poor sleep, or psychological stress. Consider active recovery, sauna/cold exposure, and antioxidant-rich foods."]
    ELSE
        [level |-> "needs_improvement",
         description |-> "High inflammatory load, compromised recovery",
         summary |->
           "Your body shows signs of systemic inflammation. This could stem from overtraining, infection, poor gut health, or inadequate recovery. Scale back training intensity and focus on restoration."]

inf_result(markers, menstruating, score, markers_used, interpretation) ==
    [score |-> score, markers_used |-> markers_used,
     level |-> interpretation.level,
     description |-> interpretation.description,
     summary |-> interpretation.summary,
     is_menstruating |-> menstruating,
     components |-> markers]

\* compute_inflammation_score from "if markers_used < 2: return None" on
inf_finish(markers, menstruating, sc) ==
    IF sc[2] < INF_MIN_MARKERS THEN NullResult
    ELSE inf_result(markers, menstruating, sc[1], sc[2], inf_get_interpretation(sc[1]))

inf_score_markers(markers, menstruating) ==
    IF NumResolved(markers) < INF_MIN_MARKERS THEN NullResult
    ELSE The({inf_finish(markers, menstruating, sc) :
                 sc \in {inf_calculate_score(z_scores) :
                     z_scores \in {inf_calculate_z_scores(markers, menstruating)}}})

\* an exception raised in parse_biomarker leaves the extractor and the facade
compute_inflammation_score(panel, menstruating) ==
    The({IF Raises(markers) THEN Raised ELSE inf_score_markers(markers, menstruating) :
            markers \in {extract_inflammation_biomarkers(panel)}})

-----------------------------------------------------------------------------
(* OxygenScore                                                             *)

OXY_MARKERS == <<"hemoglobin", "hematocrit", "rbc", "iron">>

OXY_MEANS ==
    [hemoglobin |-> <<27, 2>>, hematocrit |-> <<41, 1>>, rbc |-> <<9, 2>>,
     iron |-> <<90, 1>>]
OXY_SDS ==
    [hemoglobin |-> <<6, 5>>, hematocrit |-> <<7, 2>>, rbc |-> <<7, 20>>,
     iron |-> <<25, 1>>]
OXY_WEIGHTS ==
    [hemoglobin |-> <<2, 5>>, hematocrit |-> <<1, 4>>, rbc |-> <<1, 5>>,
     iron |-> <<3, 20>>]

OXY_SEVERITY_SCALE == 22

OXY_KEY_MAPPINGS ==
    [hemoglobin |-> <<<<"h", "e", "m", "o", "g", "l", "o", "b", "i", "n">>, <<"h", "b">>, <<"h", "g", "b">>, <<"h", "a", "e", "m", "o", "g", "l", "o", "b", "i", "n">>>>,
     hematocrit |-> <<<<"h", "e", "m", "a", "t", "o", "c", "r", "i", "t">>, <<"h", "c", "t">>, <<"h", "a", "e", "m", "a", "t", "o", "c", "r", "i", "t">>>>,
     rbc        |-> <<<<"r", "b", "c">>, <<"r", "e", "d", "_", "b", "l", "o", "o", "d", "_", "c", "e", "l", "l", "s">>, <<"r", "e", "d", "_", "b", "l", "o", "o", "d", "_", "c", "e", "l", "l", "_", "c", "o", "u", "n", "t">>,
                      <<"e", "r", "y", "t", "h", "r", "o", "c", "y", "t", "e", "s">>>>,
     iron       |-> <<<<"i", "r", "o", "n">>, <<"s", "e", "r", "u", "m", "_", "i", "r", "o", "n">>, <<"f", "e">>, <<"s", "e", "r", "u", "m", "_", "f", "e">>>>]

OXY_KEY_CHARS ==
    [hemoglobin |-> <<"h", "e", "m", "o", "g", "l", "o", "b", "i", "n">>, hematocrit |-> <<"h", "e", "m", "a", "t", "o", "c", "r", "i", "t">>, rbc |-> <<"r", "b", "c">>,
     iron |-> <<"i", "r", "o", "n">>]

\* r'[a-zA-Z/^%]+'
OXY_UNIT_CHARS == Lowers \cup Uppers \cup {"/", "^", "%"}

HB_GL_DIVISOR == 10
HCT_FRACTION_FACTOR == 100
RBC_DIVISOR == 1000
IRON_UGL_DIVISOR == 10
OXY_MIN_MARKERS == 2
OXY_BAND_OPTIMAL == 80
OXY_BAND_GOOD == 60

oxy_convert_lower(value, marker_lower, unit_lower) ==
    IF Contains(marker_lower, <<"h", "e", "m", "o", "g", "l", "o", "b", "i", "n">>) \/ Contains(marker_lower, <<"h", "b">>)
       \/ Contains(marker_lower, <<"h", "g", "b">>)
    THEN (IF Contains(unit_lower, <<"g", "/", "l">>) /\ ~Contains(unit_lower, <<"g", "/", "d", "l">>)
          THEN RDiv(value, Whole(HB_GL_DIVISOR))
          ELSE IF Contains(unit_lower, <<"m", "m", "o", "l", "/", "l">>)
          THEN RMul(value, <<1611, 1000>>)
          ELSE value)
    ELSE IF Contains(marker_lower, <<"h", "e", "m", "a", "t", "o", "c", "r", "i", "t">>) \/ Contains(marker_lower, <<"h", "c", "t">>)
    THEN (IF RLe(Whole(0), value) /\ RLe(value, Whole(1))
          THEN RMul(value, Whole(HCT_FRACTION_FACTOR)) ELSE value)
    ELSE IF Contains(marker_lower, <<"r", "b", "c">>) \/ Contains(marker_lower, <<"r", "e", "d", "_", "b", "l", "o", "o", "d", "_", "c", "e", "l", "l">>)
    THEN (IF Contains(unit_lower, <<"x", "1", "0", "^", "6">>) \/ Contains(unit_lower, <<"1", "0", "^", "6">>)
             \/ Contains(unit_lower, <<"m", "i", "l", "l", "i", "o", "n">>)
          THEN RDiv(value, Whole(RBC_DIVISOR)) ELSE value)
    ELSE IF Contains(marker_lower, <<"i", "r", "o", "n">>) \/ Contains(marker_lower, <<"s", "e", "r", "u", "m", "_", "i", "r", "o", "n">>)
    THEN (IF Contains(unit_lower, <<"mu", "m", "o", "l", "/", "l">>) \/ Contains(unit_lower, <<"u", "m", "o", "l", "/", "l">>)
          THEN RMul(value, <<5587, 1000>>)
          ELSE IF Contains(unit_lower, <<"mu", "g", "/", "l">>) \/ Contains(unit_lower, <<"u", "g", "/", "l">>)
          THEN RDiv(value, Whole(IRON_UGL_DIVISOR))
          ELSE value)
    ELSE value

\* OxygenScore.convert_units(value, marker, unit)
oxy_convert_units(value, marker, unit) ==
    The({oxy_convert_lower(value, marker_lower, unit_lower) :
            marker_lower \in {Lower(OXY_KEY_CHARS[marker])},
            unit_lower \in {Lower(unit)}})

oxy_value_of(value, marker) ==
    The({IF parsed_value = Overflow THEN Overflow
         ELSE oxy_convert_units(parsed_value, marker, unit) :
            parsed_value \in {regex_parse_biomarker(value)},
            unit \in {UnitOf(value, OXY_UNIT_CHARS)}})

oxy_extract_at(panel, marker, i) ==
    IF i = 0 THEN None ELSE oxy_value_of(panel[i].value, marker)

\* OxygenScore.extract_oxygen_biomarkers
extract_oxygen_biomarkers(panel) ==
    [m \in {"hemoglobin", "hematocrit", "rbc", "iron"} |->
        oxy_extract_at(panel, m, ResolveKey(panel, OXY_KEY_MAPPINGS[m]))]

\* z-scores that penalise the high tail instead of the low one: the variant
\* oxy_calculate_z_scores is compared with
oxy_z_scores_high(markers) ==
    [m \in {"hemoglobin", "hematocrit", "rbc", "iron"} |->
        IF markers[m] # None THEN PositiveZ(markers[m], OXY_MEANS[m], OXY_SDS[m])
        ELSE None]

\* OxygenScore.calculate_z_scores
oxy_calculate_z_scores(markers) ==
    [m \in {"hemoglobin", "hematocrit", "rbc", "iron"} |->
        IF markers[m] # None THEN NegativeZ(markers[m], OXY_MEANS[m], OXY_SDS[m])
        ELSE None]

\* OxygenScore.calculate_score
oxy_calculate_score(z_scores) ==
    The({raw_score_from(penalty, markers_used, OXY_SEVERITY_SCALE) :
            penalty \in {WeightedSum(OXY_MARKERS, z_scores, OXY_WEIGHTS, 1, Whole(0))},
            markers_used \in {CountUsed(OXY_MARKERS, z_scores)}})

oxy_get_interpretation(score) ==
    IF AtLeast(score, OXY_BAND_OPTIMAL) THEN
        [level |-> "optimal", description |-> "Excellent oxygen transport capacity",
 summary |->
   "Your blood carries oxygen efficiently - excellent endurance potential. Your hemoglobin and iron levels support optimal oxygen delivery to tissues."]
    ELSE IF AtLeast(score, OXY_BAND_GOOD) THEN
        [level |-> "good", description |-> "Slight reduction in oxygen transport markers",
 summary |->
   "Slight reduction in iron or hemoglobin - may slightly limit performance. Consider monitoring iron intake, especially if you're very active or have heavy menstrual cycles."]
    ELSE
        [level |-> "needs_improvement", description |-> "Low oxygen transport capacity",
 summary |->
   "Low hemoglobin or ferritin - could affect stamina and recovery. Consider iron supplementation and medical evaluation to rule out anemia. Low oxygen capacity can cause fatigue, poor endurance, and delayed recovery."]

oxy_result(markers, score, markers_used, interpretation) ==
    [score |-> score, markers_used |-> markers_used,
     level |-> interpretation.level,
     description |-> interpretation.description,
     summary |-> interpretation.summary,
     components |-> markers]

\* compute_oxygen_score from "if markers_used < 2: return None" on
oxy_finish(markers, sc) ==
    IF sc[2] < OXY_MIN_MARKERS THEN NullResult
    ELSE oxy_result(markers, sc[1], sc[2], oxy_get_interpretation(sc[1]))

oxy_score_markers(markers) ==
    IF NumResolved(markers) < OXY_MIN_MARKERS THEN NullResult
    ELSE The({oxy_finish(markers, sc) :
                 sc \in {oxy_calculate_score(z_scores) :
                     z_scores \in {oxy_calculate_z_scores(markers)}}})

compute_oxygen_score(panel) ==
    The({IF Raises(markers) THEN Raised ELSE oxy_score_markers(markers) :
            markers \in {extract_oxygen_biomarkers(panel)}})

-----------------------------------------------------------------------------
(* Panels submitted by callers: the panels of the repository's tests and   *)
(* of the interface documentation, and the values a caller may put in.     *)

E(k, v) == [key |-> k, value |-> v]

MET_PANEL_OPTIMAL ==
    <<E(K_fasting_glucose, Str(<<"8", "2", " ", "m", "g", "/", "d", "L">>)), E(K_fasting_insulin, Str(<<"6", " ", "mu", "I", "U", "/", "m", "L">>)),
      E(K_triglycerides, Str(<<"5", "0", " ", "m", "g", "/", "d", "L">>)), E(K_HDL_cholesterol, Str(<<"5", "6", " ", "m", "g", "/", "d", "L">>)),
      E(K_ApoB, Str(<<"7", "4", " ", "m", "g", "/", "d", "L">>)), E(K_ApoA1, Str(<<"1", "1", "9", " ", "m", "g", "/", "d", "L">>)),
      E(K_HbA1c, Str(<<"5", ".", "0", "%">>))>>
MET_PANEL_POOR ==
    <<E(K_fasting_glucose, Str(<<"1", "2", "6", " ", "m", "g", "/", "d", "L">>)), E(K_fasting_insulin, Str(<<"2", "0", " ", "mu", "I", "U", "/", "m", "L">>)),
      E(K_triglycerides, Str(<<"2", "0", "0", " ", "m", "g", "/", "d", "L">>)), E(K_HDL_cholesterol, Str(<<"4", "0", " ", "m", "g", "/", "d", "L">>)),
      E(K_ApoB, Str(<<"1", "5", "0", " ", "m", "g", "/", "d", "L">>)), E(K_ApoA1, Str(<<"9", "0", " ", "m", "g", "/", "d", "L">>)),
      E(K_HbA1c, Str(<<"7", ".", "2", "%">>))>>
MET_PANEL_PARTIAL ==
    <<E(K_fasting_glucose, Str(<<"1", "0", "2", " ", "m", "g", "/", "d", "L">>)), E(K_HbA1c, Str(<<"5", ".", "8", "%">>)),
      E(K_triglycerides, Str(<<"1", "8", "0", " ", "m", "g", "/", "d", "L">>)), E(K_HDL_cholesterol, Str(<<"4", "5", " ", "m", "g", "/", "d", "L">>))>>
MET_PANEL_LIPIDS ==
    <<E(K_triglycerides, Str(<<"1", "5", "0", " ", "m", "g", "/", "d", "L">>)), E(K_HDL_cholesterol, Str(<<"4", "5", " ", "m", "g", "/", "d", "L">>))>>
MET_PANEL_HBA1C == <<E(K_HbA1c, Str(<<"5", ".", "9", "%">>))>>
MET_PANEL_NUMBERS ==
    <<E(K_fasting_glucose, Num(Rat(55, 10))), E(K_fasting_insulin, Num(Whole(12))),
      E(K_HbA1c, Num(Rat(54, 10)))>>

MetPanels ==
    {MET_PANEL_OPTIMAL, MET_PANEL_POOR, MET_PANEL_PARTIAL, MET_PANEL_LIPIDS,
     MET_PANEL_HBA1C, MET_PANEL_NUMBERS, <<>>}

MetValues(key) ==
    CASE key = K_fasting_glucose ->
            {Str(<<"8", "2", " ", "m", "g", "/", "d", "L">>), Str(<<"1", "2", "6", " ", "m", "g", "/", "d", "L">>), Str(<<"1", "8", " ", "m", "g", "/", "d", "L">>),
             Str(<<"5", ".", "5", " ", "m", "m", "o", "l", "/", "L">>), Str(<<"-", "4", " ", "m", "m", "o", "l", "/", "L">>), Num(Whole(0))}
      [] key = K_fasting_insulin ->
            {Str(<<"6", " ", "mu", "I", "U", "/", "m", "L">>), Str(<<"2", "0", " ", "mu", "I", "U", "/", "m", "L">>), Str(<<"-", "2", "0", " ", "mu", "I", "U", "/", "m", "L">>),
             Str(<<"6", " ", "u", "U", "/", "m", "L">>), Num(Whole(12))}
      [] key = K_triglycerides ->
            {Str(<<"5", "0", " ", "m", "g", "/", "d", "L">>), Str(<<"1", "5", "0", " ", "m", "g", "/", "d", "L">>), Str(<<"1", ".", "5", " ", "g", "/", "L">>),
             Str(<<"9", " ", "m", "g", "/", "d", "L">>), Str(<<"9", "9", "9", "9", " ", "m", "g", "/", "d", "L">>), Str(<<"-", "5", "0", " ", "m", "g", "/", "d", "L">>)}
      [] key = K_HDL_cholesterol ->
            {Str(<<"5", "6", " ", "m", "g", "/", "d", "L">>), Str(<<"4", "0", " ", "m", "g", "/", "d", "L">>), Str(<<"0", ".", "4", "5", " ", "g", "/", "L">>),
             Str(<<"-", "4", "0", " ", "m", "g", "/", "d", "L">>), Num(Whole(0))}
      [] key = K_ApoB ->
            {Str(<<"7", "4", " ", "m", "g", "/", "d", "L">>), Str(<<"1", "5", "0", " ", "m", "g", "/", "d", "L">>), Str(<<"1", ".", "1", " ", "g", "/", "L">>), Str(<<"4", " ", "m", "g", "/", "d", "L">>)}
      [] key = K_ApoA1 ->
            {Str(<<"1", "1", "9", " ", "m", "g", "/", "d", "L">>), Str(<<"9", "0", " ", "m", "g", "/", "d", "L">>), Str(<<"1", ".", "1", " ", "g", "/", "L">>), Str(<<>>)}
      [] key = K_HbA1c ->
            {Str(<<"5", ".", "0", "%">>), Str(<<"5", ".", "9", "%">>), Str(<<"7", ".", "2", "%">>), Str(<<"9", "9", " ", "%">>), NoneVal}
      [] OTHER -> {}

INF_PANEL_OPTIMAL ==
    <<E(<<"h", "s", "C", "R", "P">>, Str(<<"0", ".", "4", " ", "m", "g", "/", "L">>)), E(<<"E", "S", "R">>, Str(<<"1", "0", " ", "m", "m", "/", "h">>)),
      E(<<"f", "e", "r", "r", "i", "t", "i", "n">>, Str(<<"7", "0", " ", "mu", "g", "/", "L">>)), E(<<"W", "B", "C">>, Str(<<"6", ".", "0", " ", "x", "1", "0", "^", "9", "/", "L">>))>>
INF_PANEL_HIGH ==
    <<E(<<"h", "s", "C", "R", "P">>, Str(<<"5", ".", "0", " ", "m", "g", "/", "L">>)), E(<<"E", "S", "R">>, Str(<<"3", "5", " ", "m", "m", "/", "h">>)),
      E(<<"f", "e", "r", "r", "i", "t", "i", "n">>, Str(<<"1", "5", "0", " ", "mu", "g", "/", "L">>)), E(<<"W", "B", "C">>, Str(<<"1", "2", ".", "0", " ", "x", "1", "0", "^", "9", "/", "L">>))>>
INF_PANEL_PARTIAL ==
    <<E(<<"h", "s", "C", "R", "P">>, Str(<<"1", ".", "2", " ", "m", "g", "/", "L">>)), E(<<"E", "S", "R">>, Str(<<"1", "5", " ", "m", "m", "/", "h">>))>>
INF_PANEL_CRP == <<E(<<"h", "s", "C", "R", "P">>, Str(<<"2", ".", "5", " ", "m", "g", "/", "L">>))>>
INF_PANEL_ALIASES ==
    <<E(<<"C", "R", "P">>, Str(<<"0", ".", "3", " ", "m", "g", "/", "d", "L">>)), E(<<"S", "e", "d", " ", "R", "a", "t", "e">>, Str(<<"2", "0", " ", "m", "m", "/", "h">>)),
      E(<<"l", "e", "u", "k", "o", "c", "y", "t", "e", "s">>, Num(Whole(9)))>>

InfPanels ==
    {INF_PANEL_OPTIMAL, INF_PANEL_HIGH, INF_PANEL_PARTIAL, INF_PANEL_CRP,
     INF_PANEL_ALIASES, <<>>}

InfValues(marker) ==
    CASE marker = "hscrp" ->
            {Str(<<"0", ".", "4", " ", "m", "g", "/", "L">>), Str(<<"1", ".", "2", " ", "m", "g", "/", "L">>), Str(<<"5", ".", "0", " ", "m", "g", "/", "L">>),
             Str(<<"0", ".", "3", " ", "m", "g", "/", "d", "L">>), Str(<<"0", ".", "5", " ", "m", "g", "/", "d", "L">>), Str(<<"-", "1", " ", "m", "g", "/", "L">>),
             Str(<<"9", "0", "0", "0", " ", "m", "g", "/", "L">>), Str(<<"p", "e", "n", "d", "i", "n", "g">>), Num(Whole(2))}
      [] marker = "esr" ->
            {Str(<<"1", "0", " ", "m", "m", "/", "h">>), Str(<<"1", "5", " ", "m", "m", "/", "h">>), Str(<<"3", "5", " ", "m", "m", "/", "h">>), NoneVal}
      [] marker = "ferritin" ->
            {Str(<<"7", "0", " ", "mu", "g", "/", "L">>), Str(<<"2", "0", " ", "mu", "g", "/", "L">>), Str(<<"1", "5", "0", " ", "mu", "g", "/", "L">>)}
      [] marker = "wbc" ->
            {Str(<<"6", ".", "0", " ", "x", "1", "0", "^", "9", "/", "L">>), Str(<<"1", "2", ".", "0", " ", "x", "1", "0", "^", "9", "/", "L">>), Num(Whole(9)),
             Num(Whole(14))}
      [] OTHER -> {}

OXY_PANEL_HIGH ==
    <<E(<<"h", "e", "m", "o", "g", "l", "o", "b", "i", "n">>, Str(<<"1", "6", ".", "0", " ", "g", "/", "d", "L">>)), E(<<"h", "e", "m", "a", "t", "o", "c", "r", "i", "t">>, Str(<<"4", "8", " ", "%">>)),
      E(<<"r", "b", "c">>, Str(<<"5", ".", "2", " ", "x", "1", "0", "^", "1", "2", "/", "L">>)), E(<<"i", "r", "o", "n">>, Str(<<"1", "5", "0", " ", "mu", "g", "/", "d", "L">>))>>
OXY_PANEL_GOOD ==
    <<E(<<"h", "e", "m", "o", "g", "l", "o", "b", "i", "n">>, Str(<<"1", "2", ".", "5", " ", "g", "/", "d", "L">>)), E(<<"h", "e", "m", "a", "t", "o", "c", "r", "i", "t">>, Str(<<"3", "8", " ", "%">>)),
      E(<<"r", "b", "c">>, Str(<<"4", ".", "2", " ", "x", "1", "0", "^", "1", "2", "/", "L">>)), E(<<"i", "r", "o", "n">>, Str(<<"7", "0", " ", "mu", "g", "/", "d", "L">>))>>
OXY_PANEL_POOR ==
    <<E(<<"h", "e", "m", "o", "g", "l", "o", "b", "i", "n">>, Str(<<"9", ".", "5", " ", "g", "/", "d", "L">>)), E(<<"h", "e", "m", "a", "t", "o", "c", "r", "i", "t">>, Str(<<"3", "0", " ", "%">>)),
      E(<<"r", "b", "c">>, Str(<<"3", ".", "5", " ", "x", "1", "0", "^", "1", "2", "/", "L">>)), E(<<"i", "r", "o", "n">>, Str(<<"3", "5", " ", "mu", "g", "/", "d", "L">>))>>
OXY_PANEL_PARTIAL ==
    <<E(<<"h", "e", "m", "o", "g", "l", "o", "b", "i", "n">>, Str(<<"1", "2", ".", "0", " ", "g", "/", "d", "L">>)), E(<<"h", "e", "m", "a", "t", "o", "c", "r", "i", "t">>, Str(<<"3", "7", " ", "%">>))>>
OXY_PANEL_HB == <<E(<<"h", "e", "m", "o", "g", "l", "o", "b", "i", "n">>, Str(<<"1", "3", ".", "2", " ", "g", "/", "d", "L">>))>>
OXY_PANEL_ALIASES ==
    <<E(<<"H", "b">>, Str(<<"1", "2", "5", " ", "g", "/", "L">>)), E(<<"H", "C", "T">>, Str(<<"0", ".", "3", "8">>)),
      E(<<"S", "e", "r", "u", "m", " ", "I", "r", "o", "n">>, Str(<<"1", "2", " ", "u", "m", "o", "l", "/", "L">>))>>

OxyPanels ==
    {OXY_PANEL_HIGH, OXY_PANEL_GOOD, OXY_PANEL_POOR, OXY_PANEL_PARTIAL, OXY_PANEL_HB,
     OXY_PANEL_ALIASES, <<>>}

OxyValues(marker) ==
    CASE marker = "hemoglobin" ->
            {Str(<<"1", "6", ".", "0", " ", "g", "/", "d", "L">>), Str(<<"1", "3", ".", "5", " ", "g", "/", "d", "L">>), Str(<<"9", ".", "5", " ", "g", "/", "d", "L">>),
             Str(<<"1", "2", "5", " ", "g", "/", "L">>), Str(<<"1", "6", "0", " ", "g", "/", "L">>), Str(<<"-", "2", " ", "g", "/", "d", "L">>),
             Str(<<"7", ".", "5", " ", "m", "m", "o", "l", "/", "L">>)}
      [] marker = "hematocrit" ->
            {Str(<<"4", "8", " ", "%">>), Str(<<"4", "1", " ", "%">>), Str(<<"3", "0", " ", "%">>), Str(<<"0", ".", "3", "8">>),
             Str(<<"1">>), Str(<<"2">>), Str(<<"-", "5", " ", "%">>)}
      [] marker = "rbc" ->
            {Str(<<"5", ".", "2">>), Str(<<"4", ".", "5">>), Str(<<"3", ".", "5", " ", "x", "1", "0", "^", "1", "2", "/", "L">>), Num(Rat(47, 10))}
      [] marker = "iron" ->
            {Str(<<"1", "5", "0">>), Str(<<"9", "0", " ", "mu", "g", "/", "d", "L">>), Str(<<"3", "5", " ", "mu", "g", "/", "d", "L">>),
             Str(<<"1", "2", " ", "u", "m", "o", "l", "/", "L">>), Str(<<"9", "0", "0", "0">>)}
      [] OTHER -> {}

\* the canonical marker a caller's key is meant for ("" when for none)
MarkerAmong(markers, ks) == IF ks = {} THEN "" ELSE markers[SetMin(ks)]

MarkerOf(mappings, markers, key) ==
    MarkerAmong(markers,
        {k \in 1..Len(markers) :
            \E a \in 1..Len(mappings[markers[k]]) :
                mappings[markers[k]][a] = NormKey(key)})

\* the values a caller may store under a key when calling facade f
ValuesFor(f, key) ==
    CASE f = "metabolic"    -> MetValues(key)
      [] f = "inflammation" -> InfValues(MarkerOf(INF_KEY_MAPPINGS, INF_MARKERS, key))
      [] f = "oxygen"       -> OxyValues(MarkerOf(OXY_KEY_MAPPINGS, OXY_MARKERS, key))

-----------------------------------------------------------------------------
(* The state machine: a caller holds a panel, calls one facade on it, and  *)
(* may then change one value of the panel and call the facade again.       *)
(*   biomarkers, is_menstruating : the arguments of the call               *)
(*   facade  : the facade this caller uses                                 *)
(*   result  : what the call on the current panel returned; NotCalled      *)
(*             before the call                                             *)
(*   prev    : arguments and result of the previous call; NoPrev at first  *)
(*   edits   : how many times the panel has been changed                   *)
(* The HTTP layer is a second caller: a report handler takes a submitted   *)
(* profile through the facades and answers.                                *)
(*   profile  : the submitted HealthProfile; NoProfile without a request   *)
(*   calls    : the facades the handler has called, in order               *)
(*   response : the answer of the handler; NoResponse before it            *)

NotCalled == [called |-> FALSE]
NoPrev == [none |-> TRUE]
NoProfile == [submitted |-> FALSE]
NoResponse == [sent |-> FALSE]

\* no request is in progress
ApiIdle == profile = NoProfile /\ calls = <<>> /\ response = NoResponse

\* no combiner is under test
NoCombiner == "none"
UnitIdle ==
    /\ combiner = NoCombiner
    /\ given_z = <<>>
    /\ combined = NotCalled
    /\ interpreted = NotCalled

\* no HealthCoach has been constructed
NoReply == [received |-> FALSE]
NotReturned == [returned |-> FALSE]
CoachIdle ==
    /\ messages = <<>>
    /\ iteration = 0
    /\ pc = "none"
    /\ requests = <<>>
    /\ reply = NoReply
    /\ returned = NotReturned
    /\ forced = 0

MaxEdits == 1

Facades == {"metabolic", "inflammation", "oxygen"}

PanelsOf(f) ==
    CASE f = "metabolic" -> MetPanels
      [] f = "inflammation" -> InfPanels
      [] f = "oxygen" -> OxyPanels

InitFor(fs) ==
    /\ facade \in fs
    /\ biomarkers \in PanelsOf(facade)
    /\ is_menstruating \in (IF facade = "inflammation" THEN BOOLEAN ELSE {TRUE})
    /\ result = NotCalled
    /\ prev = NoPrev
    /\ edits = 0
    /\ ApiIdle
    /\ UnitIdle
    /\ CoachIdle

Init == InitFor(Facades)

CallMetabolic ==
    /\ facade = "metabolic"
    /\ result = NotCalled
    /\ result' = compute_metabolic_score(biomarkers)
    /\ UNCHANGED <<biomarkers, is_menstruating, facade, prev, edits>>
    /\ UNCHANGED <<api_vars, unit_vars, coach_vars>>

CallInflammation ==
    /\ facade = "inflammation"
    /\ result = NotCalled
    /\ result' = compute_inflammation_score(biomarkers, is_menstruating)
    /\ UNCHANGED <<biomarkers, is_menstruating, facade, prev, edits>>
    /\ UNCHANGED <<api_vars, unit_vars, coach_vars>>

CallOxygen ==
    /\ facade = "oxygen"
    /\ result = NotCalled
    /\ result' = compute_oxygen_score(biomarkers)
    /\ UNCHANGED <<biomarkers, is_menstruating, facade, prev, edits>>
    /\ UNCHANGED <<api_vars, unit_vars, coach_vars>>

\* the caller replaces the value stored under one key of the panel
SetValue ==
    /\ result # NotCalled
    /\ edits < MaxEdits
    /\ \E i \in 1..Len(biomarkers) :
         \E v \in ValuesFor(facade, biomarkers[i].key) \ {biomarkers[i].value} :
            biomarkers' = [biomarkers EXCEPT ![i] = E(biomarkers[i].key, v)]
    /\ prev' = [biomarkers |-> biomarkers, is_menstruating |-> is_menstruating,
                result |-> result]
    /\ result' = NotCalled
    /\ edits' = edits + 1
    /\ UNCHANGED <<is_menstruating, facade>>
    /\ UNCHANGED <<api_vars, unit_vars, coach_vars>>

Next == CallMetabolic \/ CallInflammation \/ CallOxygen \/ SetValue
Spec == Init /\ [][Next]_vars

InitMet == InitFor({"metabolic"})
NextMet == CallMetabolic \/ SetValue
SpecMet == InitMet /\ [][NextMet]_vars

InitInf == InitFor({"inflammation"})
NextInf == CallInflammation \/ SetValue
SpecInf == InitInf /\ [][NextInf]_vars

InitOxy == InitFor({"oxygen"})
NextOxy == CallOxygen \/ SetValue
SpecOxy == InitOxy /\ [][NextOxy]_vars

-----------------------------------------------------------------------------
(* Irregular panels: values without a number, numbers where strings are    *)
(* expected, readings at the unit limits, other units, other spellings of  *)
(* the keys and several aliases of one marker.  A caller calls one facade  *)
(* on such a panel and may then remove an entry, or spell a key otherwise, *)
(* and call again.                                                         *)

MET_RAW_NAN ==
    <<E(K_fasting_glucose, Str(<<"n", "a", "n">>)), E(K_fasting_insulin, Str(<<"5", " ", "mu", "I", "U", "/", "m", "L">>)),
      E(K_triglycerides, Str(<<"1", "5", "0", " ", "m", "g", "/", "d", "L">>)), E(K_HDL_cholesterol, Str(<<"5", "0", " ", "m", "g", "/", "d", "L">>)),
      E(K_HbA1c, Str(<<"6", ".", "5", "%">>))>>
MET_RAW_BLANK ==
    <<E(K_fasting_glucose, Str(<<>>)), E(K_fasting_insulin, NoneVal),
      E(K_triglycerides, Str(<<"1", "5", "0", " ", "m", "g", "/", "d", "L">>)), E(K_HDL_cholesterol, Str(<<"5", "0", " ", "m", "g", "/", "d", "L">>)),
      E(K_ApoB, Str(<<"p", "e", "n", "d", "i", "n", "g">>)), E(K_ApoA1, Str(<<"1", "1", "9", " ", "m", "g", "/", "d", "L">>)),
      E(K_HbA1c, Str(<<"-", "I", "n", "f">>))>>
MET_RAW_HUGE ==
    <<E(K_HbA1c, HugeInt(1)), E(K_triglycerides, Str(<<"1", "5", "0", " ", "m", "g", "/", "d", "L">>)),
      E(K_HDL_cholesterol, Str(<<"5", "0", " ", "m", "g", "/", "d", "L">>))>>
MET_RAW_ZERO ==
    <<E(K_fasting_glucose, Str(<<"9", "0", " ", "m", "g", "/", "d", "L">>)), E(K_fasting_insulin, Str(<<"0", " ", "mu", "I", "U", "/", "m", "L">>)),
      E(K_triglycerides, Str(<<"0", " ", "m", "g", "/", "d", "L">>)), E(K_HDL_cholesterol, Num(Whole(0))),
      E(K_HbA1c, Str(<<"6", ".", "5", "%">>))>>
MET_RAW_ZERO_DENOMINATORS ==
    <<E(K_fasting_glucose, Str(<<"9", "0", " ", "m", "g", "/", "d", "L">>)), E(K_fasting_insulin, Str(<<"6", " ", "mu", "I", "U", "/", "m", "L">>)),
      E(K_triglycerides, Str(<<"1", "5", "0", " ", "m", "g", "/", "d", "L">>)), E(K_HDL_cholesterol, Str(<<"0", " ", "m", "g", "/", "d", "L">>)),
      E(K_ApoB, Str(<<"7", "4", " ", "m", "g", "/", "d", "L">>)), E(K_ApoA1, Str(<<"-", "0", ".", "0">>)),
      E(K_HbA1c, Str(<<"0", "%">>))>>
MET_RAW_AT_LIMITS ==
    <<E(K_fasting_glucose, Str(<<"2", "0", " ", "m", "g", "/", "d", "L">>)), E(K_fasting_insulin, Str(<<"6", " ", "mu", "I", "U", "/", "m", "L">>)),
      E(K_triglycerides, Str(<<"1", "0", " ", "m", "g", "/", "d", "L">>)), E(K_HDL_cholesterol, Str(<<"5", " ", "m", "g", "/", "d", "L">>)),
      E(K_ApoB, Str(<<"5", " ", "g", "/", "L">>)), E(K_ApoA1, Num(Whole(5))), E(K_HbA1c, Str(<<"5", ".", "0", "%">>))>>
MET_RAW_NEAR_LIMITS ==
    <<E(K_fasting_glucose, Str(<<"2", "0", ".", "5", " ", "m", "m", "o", "l", "/", "L">>)), E(K_fasting_insulin, Str(<<"6", " ", "mu", "I", "U", "/", "m", "L">>)),
      E(K_triglycerides, Str(<<"9", ".", "9", " ", "m", "g", "/", "d", "L">>)), E(K_HDL_cholesterol, Str(<<"4", ".", "9", " ", "m", "g", "/", "d", "L">>)),
      E(K_ApoB, Str(<<"4", ".", "5", " ", "m", "g", "/", "d", "L">>)), E(K_ApoA1, Str(<<"1", "5", "0", " ", "g", "/", "L">>)),
      E(K_HbA1c, Str(<<"5", ".", "0", "%">>))>>
MET_RAW_KEYS ==
    <<E(<<"F", "a", "s", "t", "i", "n", "g", " ", "G", "l", "u", "c", "o", "s", "e">>, Str(<<"1", "2", "6", " ", "m", "g", "/", "d", "L">>)), E(K_fasting_insulin, Str(<<"2", "0", " ", "mu", "I", "U", "/", "m", "L">>)),
      E(<<"h", "b", "a", "1", "c">>, Str(<<"7", ".", "2", "%">>)), E(K_triglycerides, Str(<<"2", "0", "0", " ", "m", "g", "/", "d", "L">>)),
      E(K_HDL_cholesterol, Str(<<"4", "0", " ", "m", "g", "/", "d", "L">>))>>

MetRawPanels ==
    {MET_RAW_NAN, MET_RAW_BLANK, MET_RAW_HUGE, MET_RAW_ZERO,
     MET_RAW_ZERO_DENOMINATORS, MET_RAW_AT_LIMITS,
     MET_RAW_NEAR_LIMITS, MET_RAW_KEYS}

INF_RAW_UNPARSEABLE ==
    <<E(<<"h", "s", "C", "R", "P">>, Str(<<"p", "e", "n", "d", "i", "n", "g">>)), E(<<"C", "R", "P">>, Str(<<"3", ".", "0", " ", "m", "g", "/", "L">>)),
      E(<<"E", "S", "R">>, Str(<<"1", "0", " ", "m", "m", "/", "h">>)), E(<<"f", "e", "r", "r", "i", "t", "i", "n">>, NoneVal), E(<<"W", "B", "C">>, Str(<<>>))>>
INF_RAW_TWO_ALIASES ==
    <<E(<<"C", "R", "P">>, Str(<<"3", ".", "0", " ", "m", "g", "/", "L">>)), E(<<"h", "s", "C", "R", "P">>, Str(<<"0", ".", "4", " ", "m", "g", "/", "L">>)),
      E(<<"E", "S", "R">>, Str(<<"1", "0", " ", "m", "m", "/", "h">>))>>
INF_RAW_TWO_ALIASES_REVERSED ==
    <<E(<<"E", "S", "R">>, Str(<<"1", "0", " ", "m", "m", "/", "h">>)), E(<<"h", "s", "C", "R", "P">>, Str(<<"0", ".", "4", " ", "m", "g", "/", "L">>)),
      E(<<"C", "R", "P">>, Str(<<"3", ".", "0", " ", "m", "g", "/", "L">>))>>
INF_RAW_HUGE == <<E(<<"h", "s", "C", "R", "P">>, HugeInt(1)), E(<<"E", "S", "R">>, Str(<<"1", "0", " ", "m", "m", "/", "h">>))>>
INF_RAW_KEYS ==
    <<E(<<"h", "s", "-", "C", "R", "P">>, Str(<<"5", ".", "0", " ", "m", "g", "/", "L">>)), E(<<"S", "e", "d", " ", "R", "a", "t", "e">>, Str(<<"3", "5", " ", "m", "m", "/", "h">>)),
      E(<<"W", "B", "C">>, Str(<<"1", "2", ".", "0", " ", "x", "1", "0", "^", "9", "/", "L">>))>>
INF_RAW_NUMBERS ==
    <<E(<<"h", "s", "C", "R", "P">>, Num(Whole(0))), E(<<"E", "S", "R">>, Num(Whole(-3))), E(<<"W", "B", "C">>, Num(Whole(6)))>>

InfRawPanels ==
    {INF_RAW_UNPARSEABLE, INF_RAW_TWO_ALIASES, INF_RAW_TWO_ALIASES_REVERSED,
     INF_RAW_HUGE, INF_RAW_KEYS, INF_RAW_NUMBERS}

OXY_RAW_UNITS ==
    <<E(<<"h", "e", "m", "o", "g", "l", "o", "b", "i", "n">>, Str(<<"1", "2", "5", " ", "g", "/", "L">>)), E(<<"r", "b", "c">>, Str(<<"4", "5", "0", "0", " ", "x", "1", "0", "^", "6", "/", "mu", "L">>)),
      E(<<"i", "r", "o", "n">>, Str(<<"1", "6", " ", "mu", "m", "o", "l", "/", "L">>))>>
OXY_RAW_UNITS_ASCII ==
    <<E(<<"h", "e", "m", "o", "g", "l", "o", "b", "i", "n">>, Str(<<"8", " ", "m", "m", "o", "l", "/", "L">>)), E(<<"r", "b", "c">>, Str(<<"4", ".", "5", " ", "x", "1", "0", "^", "1", "2", "/", "L">>)),
      E(<<"i", "r", "o", "n">>, Str(<<"9", "0", "0", " ", "u", "g", "/", "L">>))>>
OXY_RAW_UNITS_MICRO ==
    <<E(<<"h", "e", "m", "o", "g", "l", "o", "b", "i", "n">>, Str(<<"1", "3", ".", "5", " ", "G", "/", "D", "L">>)), E(<<"r", "b", "c">>, Str(<<"4", ".", "5">>)),
      E(<<"i", "r", "o", "n">>, Str(<<"9", "0", "0", " ", "mu", "g", "/", "L">>))>>
OXY_RAW_TWO_ALIASES ==
    <<E(<<"H", "b">>, Str(<<"1", "2", "5", " ", "g", "/", "L">>)), E(<<"h", "e", "m", "o", "g", "l", "o", "b", "i", "n">>, Str(<<"9", ".", "5", " ", "g", "/", "d", "L">>)),
      E(<<"i", "r", "o", "n">>, Str(<<"9", "0", " ", "mu", "g", "/", "d", "L">>))>>
OXY_RAW_UNPARSEABLE ==
    <<E(<<"h", "e", "m", "o", "g", "l", "o", "b", "i", "n">>, NoneVal), E(<<"H", "b">>, Str(<<"1", "2", "5", " ", "g", "/", "L">>)),
      E(<<"h", "e", "m", "a", "t", "o", "c", "r", "i", "t">>, Str(<<"n", "/", "a">>)), E(<<"r", "b", "c">>, Str(<<>>)),
      E(<<"i", "r", "o", "n">>, Str(<<"9", "0", " ", "mu", "g", "/", "d", "L">>))>>
OXY_RAW_HUGE == <<E(<<"h", "e", "m", "o", "g", "l", "o", "b", "i", "n">>, HugeInt(-1)), E(<<"i", "r", "o", "n">>, Str(<<"9", "0">>))>>
OXY_RAW_KEYS ==
    <<E(<<"H", "E", "M", "O", "G", "L", "O", "B", "I", "N">>, Str(<<"9", ".", "5", " ", "g", "/", "d", "L">>)), E(<<"S", "e", "r", "u", "m", "-", "I", "r", "o", "n">>, Str(<<"3", "5", " ", "mu", "g", "/", "d", "L">>)),
      E(<<"r", "e", "d", " ", "b", "l", "o", "o", "d", " ", "c", "e", "l", "l", "s">>, Str(<<"3", ".", "5", " ", "x", "1", "0", "^", "1", "2", "/", "L">>))>>

OxyRawPanels ==
    {OXY_RAW_UNITS, OXY_RAW_UNITS_ASCII, OXY_RAW_UNITS_MICRO, OXY_RAW_TWO_ALIASES,
     OXY_RAW_UNPARSEABLE, OXY_RAW_HUGE, OXY_RAW_KEYS}

RawPanelsOf(f) ==
    CASE f = "metabolic" -> MetRawPanels
      [] f = "inflammation" -> InfRawPanels
      [] f = "oxygen" -> OxyRawPanels

\* spellings of one marker name that differ in casing and in the separator
KEY_SPELLINGS ==
    {{<<"F", "a", "s", "t", "i", "n", "g", " ", "G", "l", "u", "c", "o", "s", "e">>, <<"f", "a", "s", "t", "i", "n", "g", "-", "g", "l", "u", "c", "o", "s", "e">>, K_fasting_glucose},
     {<<"h", "b", "a", "1", "c">>, <<"H", "B", "A", "1", "C">>, K_HbA1c},
     {<<"h", "s", "-", "C", "R", "P">>, <<"h", "s", " ", "c", "r", "p">>, <<"H", "S", "_", "C", "R", "P">>},
     {<<"S", "e", "d", " ", "R", "a", "t", "e">>, <<"s", "e", "d", "-", "r", "a", "t", "e">>, <<"S", "E", "D", "_", "R", "A", "T", "E">>},
     {<<"W", "B", "C">>, <<"w", "b", "c">>},
     {<<"H", "E", "M", "O", "G", "L", "O", "B", "I", "N">>, <<"H", "e", "m", "o", "g", "l", "o", "b", "i", "n">>, <<"h", "e", "m", "o", "g", "l", "o", "b", "i", "n">>},
     {<<"S", "e", "r", "u", "m", "-", "I", "r", "o", "n">>, <<"s", "e", "r", "u", "m", " ", "i", "r", "o", "n">>, <<"S", "E", "R", "U", "M", "_", "I", "R", "O", "N">>},
     {<<"r", "e", "d", " ", "b", "l", "o", "o", "d", " ", "c", "e", "l", "l", "s">>, <<"R", "e", "d", "-", "B", "l", "o", "o", "d", "-", "C", "e", "l", "l", "s">>, <<"r", "e", "d", "_", "b", "l", "o", "o", "d", "_", "c", "e", "l", "l", "s">>}}

SpellingsOf(key) == UNION {g \in KEY_SPELLINGS : key \in g}

RemoveAt(panel, i) == SubSeq(panel, 1, i - 1) \o SubSeq(panel, i + 1, Len(panel))

InitRaw ==
    /\ facade \in Facades
    /\ biomarkers \in RawPanelsOf(facade)
    /\ is_menstruating \in (IF facade = "inflammation" THEN BOOLEAN ELSE {TRUE})
    /\ result = NotCalled
    /\ prev = NoPrev
    /\ edits = 0
    /\ ApiIdle
    /\ UnitIdle
    /\ CoachIdle

\* the caller takes one entry out of the panel
RemoveEntry ==
    /\ result # NotCalled
    /\ edits < MaxEdits
    /\ \E i \in 1..Len(biomarkers) : biomarkers' = RemoveAt(biomarkers, i)
    /\ prev' = [biomarkers |-> biomarkers, is_menstruating |-> is_menstruating,
                result |-> result]
    /\ result' = NotCalled
    /\ edits' = edits + 1
    /\ UNCHANGED <<is_menstruating, facade>>
    /\ UNCHANGED <<api_vars, unit_vars, coach_vars>>

\* the caller spells one key of the panel otherwise
RenameKey ==
    /\ result # NotCalled
    /\ edits < MaxEdits
    /\ \E i \in 1..Len(biomarkers) :
         \E k \in SpellingsOf(biomarkers[i].key) \ {biomarkers[i].key} :
            biomarkers' = [biomarkers EXCEPT ![i] = E(k, biomarkers[i].value)]
    /\ prev' = [biomarkers |-> biomarkers, is_menstruating |-> is_menstruating,
                result |-> result]
    /\ result' = NotCalled
    /\ edits' = edits + 1
    /\ UNCHANGED <<is_menstruating, facade>>
    /\ UNCHANGED <<api_vars, unit_vars, coach_vars>>

NextRaw ==
    CallMetabolic \/ CallInflammation \/ CallOxygen \/ RemoveEntry \/ RenameKey
SpecRaw == InitRaw /\ [][NextRaw]_vars

-----------------------------------------------------------------------------
(* The HTTP layer: generate_report and generate_report_with_photo.  What   *)
(* follows the scoring (the photo, the language model, the parsing of its  *)
(* report) is outside the scoring engine and is a choice of outcomes.      *)

\* Optional[bool] of HealthProfile.is_menstruating
NotGiven == [given |-> FALSE]
Given(b) == [given |-> TRUE, value |-> b]

\* the fields of HealthProfile; its Optional score fields are None
\* (NullResult) in a submitted profile
HEALTH_PROFILE_FIELDS ==
    {"age", "height", "weight", "bioage", "lifestyle_quiz", "biomarkers",
     "skin_age", "metabolic_score", "inflammation_score", "oxygen_score",
     "is_menstruating"}

HealthProfile(panel, flag) ==
    [biomarkers |-> panel, is_menstruating |-> flag,
     metabolic_score |-> NullResult, inflammation_score |-> NullResult,
     oxygen_score |-> NullResult]

\* pydantic's BaseModel.__setattr__ raises ValueError for a name that is
\* not a field of the model (HealthProfile sets no 'extra' option)
SetAttrRaises(name) == name \notin HEALTH_PROFILE_FIELDS

\* the inflammation facade was not called
Skipped == [skipped |-> TRUE]

\* "if x_result: profile.x_score = XScoreResult(**x_result)"
Attached(x_result) == IF x_result \in {NullResult, Skipped} THEN NullResult ELSE x_result

InflammationCall(i) == IF i = Skipped THEN <<>> ELSE <<"inflammation">>

\* the scoring steps with the three facade outcomes m, i, o: a facade that
\* raises ends the steps
scored(p, m, i, o) ==
    IF i = Raised
    THEN [calls |-> <<"metabolic", "inflammation">>, raised |-> TRUE,
          profile |-> [p EXCEPT !.metabolic_score = Attached(m)]]
    ELSE IF o = Raised
    THEN [calls |-> <<"metabolic">> \o InflammationCall(i) \o <<"oxygen">>,
          raised |-> TRUE,
          profile |-> [p EXCEPT !.metabolic_score = Attached(m),
                                !.inflammation_score = Attached(i)]]
    ELSE [calls |-> <<"metabolic">> \o InflammationCall(i) \o <<"oxygen">>,
          raised |-> FALSE,
          profile |-> [p EXCEPT !.metabolic_score = Attached(m),
                                !.inflammation_score = Attached(i),
                                !.oxygen_score = Attached(o)]]

\* the metabolic facade, the inflammation facade "if profile.is_menstruating
\* is not None", the oxygen facade
score_profile(p) ==
    The({scored(p, m, i, o) :
            m \in {compute_metabolic_score(p.biomarkers)},
            i \in {IF p.is_menstruating.given
                   THEN compute_inflammation_score(p.biomarkers, p.is_menstruating.value)
                   ELSE Skipped},
            o \in {compute_oxygen_score(p.biomarkers)}})

Http(status, detail, reached_report) ==
    [status |-> status, detail |-> detail, reached_report |-> reached_report]

\* what a handler ends with: "except Exception" turns every error into a
\* status 500 with the handler's own prefix
handled(p, prefix, s, after) ==
    IF s.raised
    THEN {[calls |-> s.calls, profile |-> s.profile,
           response |-> Http(500, prefix, FALSE)]}
    ELSE {[calls |-> s.calls, profile |-> s.profile, response |-> r] : r \in after}

handle(p, prefix, after) ==
    IF SetAttrRaises("biomarkers_with_descriptions")
    THEN {[calls |-> <<>>, profile |-> p, response |-> Http(500, prefix, FALSE)]}
    ELSE handled(p, prefix, score_profile(p), after)

\* the outcomes of the steps after the scoring
AfterScoring ==
    {Http(200, "report", TRUE), Http(200, "text_content", TRUE),
     Http(500, "Failed to parse report", TRUE),
     Http(500, "Error generating report", TRUE)}
AfterScoringWithPhoto ==
    {Http(200, "report", TRUE), Http(500, "Error", FALSE), Http(500, "Error", TRUE)}

Flags == {NotGiven, Given(TRUE), Given(FALSE)}

FULL_PANEL == MET_PANEL_OPTIMAL \o INF_PANEL_HIGH \o OXY_PANEL_POOR

ApiPanels ==
    MetRawPanels \cup InfRawPanels \cup OxyRawPanels
        \cup {FULL_PANEL, MET_PANEL_POOR, INF_PANEL_OPTIMAL, OXY_PANEL_GOOD, <<>>}

InitApi ==
    /\ facade = "http"
    /\ biomarkers = <<>>
    /\ is_menstruating = TRUE
    /\ result = NotCalled
    /\ prev = NoPrev
    /\ edits = 0
    /\ profile \in {HealthProfile(panel, flag) : panel \in ApiPanels, flag \in Flags}
    /\ calls = <<>>
    /\ response = NoResponse
    /\ UnitIdle
    /\ CoachIdle

\* POST /generate-report
generate_report ==
    /\ profile # NoProfile
    /\ response = NoResponse
    /\ \E end \in handle(profile, "Error generating report", AfterScoring) :
          /\ calls' = end.calls
          /\ profile' = end.profile
          /\ response' = end.response
    /\ UNCHANGED <<caller_vars, unit_vars, coach_vars>>

\* POST /generate-report-with-photo
generate_report_with_photo ==
    /\ profile # NoProfile
    /\ response = NoResponse
    /\ \E end \in handle(profile, "Error", AfterScoringWithPhoto) :
          /\ calls' = end.calls
          /\ profile' = end.profile
          /\ response' = end.response
    /\ UNCHANGED <<caller_vars, unit_vars, coach_vars>>

\* POST /generate-report-simple: no scoring, the text report only
generate_report_simple ==
    /\ profile # NoProfile
    /\ response = NoResponse
    /\ response' \in {Http(200, "report", TRUE),
                      Http(500, "Error generating report", TRUE)}
    /\ UNCHANGED <<profile, calls>>
    /\ UNCHANGED <<caller_vars, unit_vars, coach_vars>>

NextApi == generate_report \/ generate_report_with_photo \/ generate_report_simple
SpecApi == InitApi /\ [][NextApi]_vars

-----------------------------------------------------------------------------
(* Properties                                                              *)

Called == result # NotCalled
Returned == result # NotCalled /\ result # NullResult

\* the previous call and this one both returned a result
Compared == prev # NoPrev /\ Returned /\ prev.result # NullResult

\* of two readings a, b with scores sa, sb: the larger reading never has the
\* higher score / never has the lower score
NeverHigher(a, b, sa, sb) == (RLt(a, b) => RLe(sb, sa)) /\ (RLt(b, a) => RLe(sa, sb))
NeverLower(a, b, sa, sb) == (RLt(a, b) => RLe(sa, sb)) /\ (RLt(b, a) => RLe(sb, sa))

Positive(a) == RLt(Whole(0), a)

\* the number a metabolic input holds before and after the last change
MetNumberBefore(i) == met_parse_biomarker(prev.biomarkers[i].value)
MetNumberAfter(i) == met_parse_biomarker(biomarkers[i].value)

\* the number in a raw value and the text that follows it
Magnitude(value) == regex_parse_biomarker(value)
TextAfter(s, m) == IF m = <<>> THEN Strip(s) ELSE Strip(SubSeq(s, m[2], Len(s)))
UnitText(value) == IF value.t = "str" THEN TextAfter(value.s, NumSearch(value.s)) ELSE <<>>

\* entry i holds a magnitude before and after the last change, with the same
\* unit text
SameUnitMagnitudes(i) ==
    /\ Magnitude(prev.biomarkers[i].value) # None
    /\ Magnitude(biomarkers[i].value) # None
    /\ UnitText(prev.biomarkers[i].value) = UnitText(biomarkers[i].value)

\* C1: no facade returns a result with markers_used below 2 (with 0 or 1
\* contributing markers every facade returns null).
FloorOfTwoMarkers == Returned => result.markers_used >= 2

\* C2: a returned score lies in [0, 100], whatever the input magnitudes.
ScoreInRange ==
    Returned => RLe(Whole(0), result.score) /\ RLe(result.score, Whole(100))

\* a call on a panel holding a huge reading returned the score 0
ScoreClampedAtZero ==
    /\ Returned
    /\ result.score = Whole(0)
    /\ \E i \in 1..Len(biomarkers) :
          /\ Magnitude(biomarkers[i].value) # None
          /\ RLe(Whole(9000), Magnitude(biomarkers[i].value))

\* C3, as stated: of two metabolic panels that differ in the number of one
\* input, both scored, the one with the larger number never has the higher score.
MetabolicLargerNeverHigher ==
    (facade = "metabolic" /\ Compared) =>
        \A i \in 1..Len(biomarkers) :
            (MetNumberBefore(i) # None /\ MetNumberAfter(i) # None) =>
                NeverHigher(MetNumberBefore(i), MetNumberAfter(i),
                            prev.result.score, result.score)

\* both numbers fall on the same side of the limit at which convert_units
\* takes the input for a reading in the other unit
SameSide(key, a, b) ==
    CASE key = K_fasting_glucose ->
            RLt(Whole(GLUCOSE_LIMIT), a) = RLt(Whole(GLUCOSE_LIMIT), b)
      [] key = K_triglycerides ->
            RLt(a, Whole(TG_LIMIT)) = RLt(b, Whole(TG_LIMIT))
      [] key \in {K_HDL_cholesterol, K_ApoB, K_ApoA1} ->
            RLt(a, Whole(LIPID_LIMIT)) = RLt(b, Whole(LIPID_LIMIT))
      [] OTHER -> TRUE

\* the inputs that appear as denominators of the derived ratios
Denominators == {K_HDL_cholesterol, K_ApoA1}

MetabolicDirection(key, a, b, sa, sb) ==
    (Positive(a) /\ Positive(b) /\ SameSide(key, a, b)) =>
        IF key \in Denominators THEN NeverLower(a, b, sa, sb)
        ELSE NeverHigher(a, b, sa, sb)

\* C3, amended: of two metabolic panels that differ in the number of one input,
\* both numbers positive and on the same side of the input's unit limit, both
\* scored: for glucose, insulin, triglycerides, ApoB and HbA1c the larger number
\* never has the higher score, for HDL and ApoA1 it never has the lower score.
MetabolicMonotoneByRole ==
    (facade = "metabolic" /\ Compared) =>
        \A i \in 1..Len(biomarkers) :
            (MetNumberBefore(i) # None /\ MetNumberAfter(i) # None) =>
                MetabolicDirection(biomarkers[i].key,
                                   MetNumberBefore(i), MetNumberAfter(i),
                                   prev.result.score, result.score)

\* raising triglycerides within one unit lowered the score
TriglyceridesRaisedScoreFell ==
    /\ facade = "metabolic"
    /\ Compared
    /\ \E i \in 1..Len(biomarkers) :
          /\ biomarkers[i].key = K_triglycerides
          /\ MetNumberBefore(i) # None /\ MetNumberAfter(i) # None
          /\ Positive(MetNumberBefore(i))
          /\ SameSide(K_triglycerides, MetNumberBefore(i), MetNumberAfter(i))
          /\ RLt(MetNumberBefore(i), MetNumberAfter(i))
          /\ RLt(result.score, prev.result.score)

\* C4: of two inflammation panels that differ in the magnitude of one marker
\* (same unit text, same is_menstruating), both scored, the one with the larger
\* magnitude never has the higher score.
InflammationLargerNeverHigher ==
    (facade = "inflammation" /\ Compared /\ prev.is_menstruating = is_menstruating) =>
        \A i \in 1..Len(biomarkers) :
            SameUnitMagnitudes(i) =>
                NeverHigher(Magnitude(prev.biomarkers[i].value),
                            Magnitude(biomarkers[i].value),
                            prev.result.score, result.score)

\* a larger magnitude of one marker, same unit, gave a strictly lower score
InflammationRaisedScoreFell ==
    /\ facade = "inflammation"
    /\ Compared
    /\ \E i \in 1..Len(biomarkers) :
          /\ SameUnitMagnitudes(i)
          /\ RLt(Magnitude(prev.biomarkers[i].value), Magnitude(biomarkers[i].value))
          /\ RLt(result.score, prev.result.score)

\* C5, as stated: of two oxygen panels that differ in the magnitude of one
\* marker (same unit text), both scored, the one with the larger magnitude
\* never has the lower score.
OxygenLargerNeverLower ==
    (facade = "oxygen" /\ Compared) =>
        \A i \in 1..Len(biomarkers) :
            SameUnitMagnitudes(i) =>
                NeverLower(Magnitude(prev.biomarkers[i].value),
                           Magnitude(biomarkers[i].value),
                           prev.result.score, result.score)

\* convert_units takes a hematocrit in [0, 1] for a fraction
FractionLike(a) == RLe(Whole(0), a) /\ RLe(a, Whole(1))

\* of two hematocrit magnitudes the smaller is taken for a fraction and the
\* larger is not
CrossesFraction(a, b) ==
    \/ FractionLike(a) /\ RLt(Whole(1), b)
    \/ FractionLike(b) /\ RLt(Whole(1), a)

OxygenDirection(marker, a, b, sa, sb) ==
    (marker = "hematocrit" /\ CrossesFraction(a, b)) \/ NeverLower(a, b, sa, sb)

\* C5, amended: the same for hemoglobin, rbc and iron; for hematocrit unless
\* the smaller magnitude lies in [0, 1], where it is taken for a fraction and
\* multiplied by 100, and the larger lies above 1.
OxygenMonotoneOffFraction ==
    (facade = "oxygen" /\ Compared) =>
        \A i \in 1..Len(biomarkers) :
            SameUnitMagnitudes(i) =>
                OxygenDirection(MarkerOf(OXY_KEY_MAPPINGS, OXY_MARKERS, biomarkers[i].key),
                                Magnitude(prev.biomarkers[i].value),
                                Magnitude(biomarkers[i].value),
                                prev.result.score, result.score)

\* a larger magnitude of one marker, same unit, gave a strictly higher score
OxygenRaisedScoreRose ==
    /\ facade = "oxygen"
    /\ Compared
    /\ \E i \in 1..Len(biomarkers) :
          /\ SameUnitMagnitudes(i)
          /\ RLt(Magnitude(prev.biomarkers[i].value), Magnitude(biomarkers[i].value))
          /\ RLt(prev.result.score, result.score)

TG_150_MGDL == Str(<<"1", "5", "0", " ", "m", "g", "/", "d", "L">>)
TG_1_5_GL == Str(<<"1", ".", "5", " ", "g", "/", "L">>)

\* the last change rewrote triglycerides between "150 mg/dL" and "1.5 g/L"
TriglyceridesRewritten ==
    /\ facade = "metabolic"
    /\ prev # NoPrev
    /\ Called
    /\ \E i \in 1..Len(biomarkers) :
          /\ biomarkers[i].key = K_triglycerides
          /\ {prev.biomarkers[i].value, biomarkers[i].value} = {TG_150_MGDL, TG_1_5_GL}

\* C7: a metabolic panel with triglycerides "150 mg/dL" and the same panel with
\* "1.5 g/L" both normalise triglycerides to 150 mg/dL and return identical
\* results.
TriglycerideUnitsEquivalent ==
    TriglyceridesRewritten =>
        /\ met_convert_units(prev.biomarkers).tg_mgdl = Whole(150)
        /\ met_convert_units(biomarkers).tg_mgdl = Whole(150)
        /\ result = prev.result

\* both spellings were scored, with HDL present so that triglycerides counted
TriglycerideUnitsScored ==
    /\ TriglyceridesRewritten
    /\ Returned
    /\ result.components.tg_hdl_ratio # None

\* at least two markers are resolved and each is at or above its mean
AtOrAboveMeans(markers) ==
    /\ NumResolved(markers) >= 2
    /\ \A m \in DOMAIN markers : markers[m] # None => RLe(OXY_MEANS[m], markers[m])

\* C8: an oxygen panel with at least 2 resolved markers, each at or above its
\* population mean, scores 100 and is optimal.
OxygenNoHighPenalty ==
    (facade = "oxygen" /\ Called /\ AtOrAboveMeans(extract_oxygen_biomarkers(biomarkers))) =>
        /\ result # NullResult
        /\ result.score = Whole(100)
        /\ result.level = "optimal"

\* the high panel (hemoglobin 16.0 g/dL, hematocrit 48 %, rbc 5.2 x10^12/L,
\* iron 150 ug/dL) was scored 100, with a component above its mean
OxygenHighPanelScored ==
    /\ facade = "oxygen"
    /\ biomarkers = OXY_PANEL_HIGH
    /\ Returned
    /\ result.score = Whole(100)
    /\ \E m \in DOMAIN result.components : RLt(OXY_MEANS[m], result.components[m])

MET_INPUT_KEYS ==
    {K_fasting_glucose, K_fasting_insulin, K_triglycerides, K_HDL_cholesterol,
     K_ApoB, K_ApoA1, K_HbA1c}

\* all seven inputs are supplied with parseable non-zero values
AllSevenSupplied(panel) ==
    \A k \in MET_INPUT_KEYS : Truthy(met_parse_biomarker(Get(panel, k)))

\* each of the four derived values is at or below its population mean
DerivedAtOrBelowMeans(c) ==
    /\ RLe(c.homa_ir, MET_POPULATION_STATS.homa.mean)
    /\ RLe(c.tg_hdl_ratio, MET_POPULATION_STATS.tg_hdl.mean)
    /\ RLe(c.apob_a1_ratio, MET_POPULATION_STATS.apob_a1.mean)
    /\ RLe(c.hba1c, MET_POPULATION_STATS.hba1c.mean)

\* C9: a metabolic panel supplying all seven inputs with parseable non-zero
\* values yields markers_used = 4; when every derived value is at or below its
\* mean as well, the score is 100 and the level optimal.
MetabolicFullPanel ==
    (facade = "metabolic" /\ Called /\ AllSevenSupplied(biomarkers)) =>
        /\ result # NullResult
        /\ result.markers_used = 4
        /\ DerivedAtOrBelowMeans(result.components) =>
              (result.score = Whole(100) /\ result.level = "optimal")

\* the optimal panel (glucose 82, insulin 6, TG 50, HDL 56, ApoB 74, ApoA1 119,
\* HbA1c 5.0%) was scored 100 from four markers
MetabolicOptimalPanelScored ==
    /\ facade = "metabolic"
    /\ biomarkers = MET_PANEL_OPTIMAL
    /\ Returned
    /\ result.markers_used = 4
    /\ DerivedAtOrBelowMeans(result.components)
    /\ result.score = Whole(100)

\* C10: a returned inflammation result counts in markers_used the canonical
\* markers resolved from the panel; the optimal panel with is_menstruating
\* gives 4 markers and a score of at least 80, the panel with hsCRP and ESR
\* only gives a result with 2.
InflammationMarkersUsed ==
    (facade = "inflammation" /\ Called) =>
        /\ Returned =>
              result.markers_used = NumResolved(extract_inflammation_biomarkers(biomarkers))
        /\ (biomarkers = INF_PANEL_OPTIMAL /\ is_menstruating) =>
              /\ result # NullResult
              /\ result.markers_used = 4
              /\ RLe(Whole(80), result.score)
        /\ biomarkers = INF_PANEL_PARTIAL =>
              (result # NullResult /\ result.markers_used = 2)

\* the panel with hsCRP and ESR only was scored from 2 markers
InflammationPartialPanelScored ==
    /\ facade = "inflammation"
    /\ biomarkers = INF_PANEL_PARTIAL
    /\ Returned
    /\ result.markers_used = 2
\* the number the facade in use makes of a raw value: parse_biomarker of its
\* class
ParsedBy(f, value) ==
    IF f = "metabolic" THEN met_parse_biomarker(value) ELSE regex_parse_biomarker(value)

\* C16: in every pipeline a raw value that is a number, zero and negative
\* numbers included, is parsed to that same number, never to unparseable.
NumberParsesToItself ==
    Called =>
        \A i \in 1..Len(biomarkers) :
            biomarkers[i].value.t = "num" =>
                ParsedBy(facade, biomarkers[i].value) = biomarkers[i].value.v

\* C17: in every pipeline a string is parsed to the number of its first
\* substring matching [sign] digits [. digits], whatever text surrounds it,
\* and is unparseable only without such a substring.
StringParsesByPattern ==
    Called =>
        \A i \in 1..Len(biomarkers) :
            biomarkers[i].value.t = "str" =>
                ParsedBy(facade, biomarkers[i].value) = RegexNumber(biomarkers[i].value.s)

\* C11: no call of a facade ends in an error: whatever the values of the
\* panel are, the call ends with a result or with null.
NoFacadeRaises == result # Raised

\* a raw value without numeric content: null, the empty string or a text
\* without any digit
NoNumericContent(value) ==
    \/ value.t = "none"
    \/ value.t = "str" /\ \A j \in 1..Len(value.s) : value.s[j] \notin Digits

\* C12: a value without numeric content counts as a missing marker: when
\* the entry taken out of the previous panel had no numeric content, the
\* call on the remaining panel gives the result of the previous call.
UnparseableSameAsMissing ==
    (/\ prev # NoPrev
     /\ Called
     /\ \E i \in 1..Len(prev.biomarkers) :
           /\ biomarkers = RemoveAt(prev.biomarkers, i)
           /\ NoNumericContent(prev.biomarkers[i].value))
        => result = prev.result

\* a key in lower case with spaces and hyphens replaced by underscores
FoldedKey(key) == Replace(Replace(Lower(key), <<" ">>, <<"_">>), <<"-">>, <<"_">>)

\* two panels with the same values under keys that differ only in casing
\* and in the separator
SameUpToSpelling(p, q) ==
    /\ Len(p) = Len(q)
    /\ \A i \in 1..Len(p) :
          p[i].value = q[i].value /\ FoldedKey(p[i].key) = FoldedKey(q[i].key)

\* C13: the lookup of a marker ignores the casing of a key and whether its
\* separator is a space, a hyphen or an underscore: a panel that differs
\* from the previous one only in such spellings gives the same result.
KeySpellingIgnored ==
    (prev # NoPrev /\ Called /\ SameUpToSpelling(prev.biomarkers, biomarkers))
        => result = prev.result

KeyMappingsOf(f) == IF f = "inflammation" THEN INF_KEY_MAPPINGS ELSE OXY_KEY_MAPPINGS

ExtractedBy(f, panel) ==
    IF f = "inflammation" THEN extract_inflammation_biomarkers(panel)
    ELSE extract_oxygen_biomarkers(panel)

\* the canonical value an entry gives: None when its raw value has no number
CanonicalValue(f, value, m) ==
    IF regex_parse_biomarker(value) = None THEN None
    ELSE IF f = "inflammation" THEN inf_value_of(value, m)
    ELSE oxy_value_of(value, m)

\* the pairs <<a, i>> of an alias and a panel entry whose key matches it
KeyMatches(panel, aliases) ==
    {p \in (1..Len(aliases)) \X (1..Len(panel)) :
        NormKey(panel[p[2]].key) = aliases[p[1]]}

\* of those, the pairs whose entry holds a number
NumberMatches(panel, aliases) ==
    {p \in KeyMatches(panel, aliases) :
        regex_parse_biomarker(panel[p[2]].value) # None}

\* the earliest alias, and for that alias the earliest entry
Earliest(S) ==
    CHOOSE p \in S : \A q \in S : p[1] < q[1] \/ (p[1] = q[1] /\ p[2] <= q[2])

ValueOfEarliest(f, panel, m, S) ==
    IF S = {} THEN None ELSE CanonicalValue(f, panel[Earliest(S)[2]].value, m)

\* C14 as stated: in the inflammation and oxygen extractors the first alias,
\* in the order of the alias list, that matches a key of the panel gives the
\* canonical value, whatever the order of the panel's entries.
FirstMatchingAliasDecides ==
    (Called /\ facade \in {"inflammation", "oxygen"}) =>
        \A m \in DOMAIN KeyMappingsOf(facade) :
            ExtractedBy(facade, biomarkers)[m] =
                ValueOfEarliest(facade, biomarkers, m,
                                KeyMatches(biomarkers, KeyMappingsOf(facade)[m]))

\* C14, amended: the first alias, in the order of the alias list, that
\* matches a key of the panel whose value holds a number gives the canonical
\* value, whatever the order of the panel's entries; an alias whose entries
\* hold no number is passed over.
FirstAliasWithNumberDecides ==
    (Called /\ facade \in {"inflammation", "oxygen"}) =>
        \A m \in DOMAIN KeyMappingsOf(facade) :
            ExtractedBy(facade, biomarkers)[m] =
                ValueOfEarliest(facade, biomarkers, m,
                                NumberMatches(biomarkers, KeyMappingsOf(facade)[m]))

\* the panel lists CRP before hsCRP and the value of hsCRP was used
EarlierAliasUsed ==
    /\ facade = "inflammation"
    /\ biomarkers = INF_RAW_TWO_ALIASES
    /\ Returned
    /\ result.components.hscrp = Rat(4, 10)

\* the canonical value a magnitude with a unit stands for: hemoglobin in g/L
\* and in mmol/L, RBC in x10^6/µL, iron in µmol/L and in µg/L are converted,
\* anything else is kept
ConvertedByUnit(m, magnitude, unit) ==
    CASE m = "hemoglobin" ->
            IF Contains(unit, <<"g", "/", "l">>) THEN RDiv(magnitude, Whole(HB_GL_DIVISOR))
            ELSE IF Contains(unit, <<"m", "m", "o", "l", "/", "l">>) THEN RMul(magnitude, <<1611, 1000>>)
            ELSE magnitude
      [] m = "rbc" ->
            IF Contains(unit, <<"x", "1", "0", "^", "6", "/", "mu", "l">>) \/ Contains(unit, <<"x", "1", "0", "^", "6", "/", "u", "l">>)
            THEN RDiv(magnitude, Whole(RBC_DIVISOR))
            ELSE magnitude
      [] m = "iron" ->
            IF Contains(unit, <<"mu", "m", "o", "l", "/", "l">>) \/ Contains(unit, <<"u", "m", "o", "l", "/", "l">>)
            THEN RMul(magnitude, <<5587, 1000>>)
            ELSE IF Contains(unit, <<"mu", "g", "/", "l">>) \/ Contains(unit, <<"u", "g", "/", "l">>)
            THEN RDiv(magnitude, Whole(IRON_UGL_DIVISOR))
            ELSE magnitude

\* C18: through the oxygen facade a string with a known other unit gives the
\* converted value (hemoglobin g/L divided by 10 and mmol/L times 1.611, RBC
\* x10^6/µL divided by 1000, iron µmol/L times 5.587 and µg/L divided by 10)
\* and a string with the canonical unit or without unit gives its number.
OxygenUnitsConverted ==
    (Called /\ facade = "oxygen") =>
        \A m \in {"hemoglobin", "rbc", "iron"} :
            \A i \in {ResolveKey(biomarkers, OXY_KEY_MAPPINGS[m])} :
                (i # 0 /\ biomarkers[i].value.t = "str") =>
                    extract_oxygen_biomarkers(biomarkers)[m] =
                        ConvertedByUnit(m, Magnitude(biomarkers[i].value),
                                        Lower(UnitText(biomarkers[i].value)))

\* a reading below the limit multiplied by 100, any other reading unchanged
TimesHundredBelow(p, limit) ==
    IF RLt(p, Whole(limit)) THEN RMul(p, Whole(GL_FACTOR)) ELSE p

\* a reading above the limit divided by 18, any other reading unchanged
DividedAbove(p, limit) ==
    IF RLt(Whole(limit), p) THEN RDiv(p, Whole(GLUCOSE_FACTOR)) ELSE p

\* the number under the key, if any, is normalised by its limit alone
ScaledByLimit(key, normalised, limit) ==
    \A p \in {met_parse_biomarker(Get(biomarkers, key))} :
        p # None => normalised = TimesHundredBelow(p, limit)

ReducedByLimit(key, normalised, limit) ==
    \A p \in {met_parse_biomarker(Get(biomarkers, key))} :
        p # None => normalised = DividedAbove(p, limit)

\* C19: the metabolic normaliser compares the number with a fixed limit and
\* ignores the unit text: triglycerides below 10 are multiplied by 100 and
\* from 10 on unchanged; HDL, ApoB and ApoA1 below 5 are multiplied by 100
\* and from 5 on unchanged; fasting glucose above 20 is divided by 18 and up
\* to 20 unchanged.
MetabolicLimitsLiteral ==
    (Called /\ facade = "metabolic") =>
        \A v \in {met_convert_units(biomarkers)} :
            /\ ScaledByLimit(K_triglycerides, v.tg_mgdl, TG_LIMIT)
            /\ ScaledByLimit(K_HDL_cholesterol, v.hdl_mgdl, LIPID_LIMIT)
            /\ ScaledByLimit(K_ApoB, v.apob_mgdl, LIPID_LIMIT)
            /\ ScaledByLimit(K_ApoA1, v.apoa1_mgdl, LIPID_LIMIT)
            /\ ReducedByLimit(K_fasting_glucose, v.glucose_mmol, GLUCOSE_LIMIT)

\* the number of derived markers, HbA1c included, that are not null
DerivedPresent(d) == Cardinality({k \in DOMAIN d : d[k] # None})

\* HOMA-IR is null when an operand is missing and glucose * insulin / 22.5
\* otherwise
HomaStated(homa, g, i) ==
    IF g = None \/ i = None THEN homa = None
    ELSE homa = RDiv(RMul(g, i), <<45, 2>>)

\* a ratio is null when an operand is missing and a / b otherwise
RatioStated(ratio, a, b) ==
    IF a = None \/ b = None THEN ratio = None ELSE ratio = RDiv(a, b)

\* C20: HOMA-IR is glucose_mmol * insulin / 22.5, TG/HDL is tg_mgdl /
\* hdl_mgdl and ApoB/ApoA1 is apob_mgdl / apoa1_mgdl; a derived marker is
\* null exactly when one of its two operands is missing, and a null derived
\* marker is not counted in markers_used.
DerivedNullOnlyWhenOperandMissing ==
    (Called /\ facade = "metabolic") =>
        \A v \in {met_convert_units(biomarkers)} :
            \A d \in {calculate_derived_markers(v)} :
                /\ HomaStated(d.homa, v.glucose_mmol, v.insulin_u)
                /\ RatioStated(d.tg_hdl, v.tg_mgdl, v.hdl_mgdl)
                /\ RatioStated(d.apob_a1, v.apob_mgdl, v.apoa1_mgdl)
                /\ Returned => result.markers_used = DerivedPresent(met_derived(v))

TimesCalled(f) == Cardinality({k \in DOMAIN calls : calls[k] = f})

\* C15: for every submitted profile the report handler calls each of the
\* three facades exactly once, attaches every result that is not null to the
\* profile and goes on to the generation of the report; a null result leaves
\* that score unset and does not end the request.
HandlerCallsEachFacadeOnce ==
    response # NoResponse =>
        /\ \A f \in Facades : TimesCalled(f) = 1
        /\ response.reached_report
        /\ profile.metabolic_score = compute_metabolic_score(profile.biomarkers)
        /\ profile.oxygen_score = compute_oxygen_score(profile.biomarkers)

\* a raw value that is the number 0 or a string that parses to 0
IsZeroValue(value) ==
    \/ value.t = "num" /\ IsZero(value.v)
    \/ \E p \in {met_parse_biomarker(value)} : p # None /\ IsZero(p)

ZeroAt(panel, key) ==
    \E i \in 1..Len(panel) : panel[i].key = key /\ IsZeroValue(panel[i].value)

\* C29: the metabolic pipeline takes a marker whose value is 0 as absent: the
\* call ends without an error, a TG/HDL or ApoB/ApoA1 ratio with a 0 operand
\* and a HOMA-IR with a 0 operand are null, and after an entry with the
\* value 0 has been taken out of the panel the result is the same as before.
ZeroTakenAsAbsent ==
    (Called /\ facade = "metabolic") =>
        /\ result # Raised
        /\ \A d \in {calculate_derived_markers(met_convert_units(biomarkers))} :
              /\ (ZeroAt(biomarkers, K_fasting_glucose)
                    \/ ZeroAt(biomarkers, K_fasting_insulin)) => d.homa = None
              /\ (ZeroAt(biomarkers, K_triglycerides)
                    \/ ZeroAt(biomarkers, K_HDL_cholesterol)) => d.tg_hdl = None
              /\ (ZeroAt(biomarkers, K_ApoB)
                    \/ ZeroAt(biomarkers, K_ApoA1)) => d.apob_a1 = None
        /\ (/\ prev # NoPrev
            /\ \E i \in 1..Len(prev.biomarkers) :
                  /\ biomarkers = RemoveAt(prev.biomarkers, i)
                  /\ IsZeroValue(prev.biomarkers[i].value))
              => result = prev.result

\* an entry with a 0 under HDL_cholesterol was taken out of a scored panel
\* and the panel was scored again
ZeroDenominatorRemoved ==
    /\ facade = "metabolic"
    /\ Returned
    /\ prev # NoPrev
    /\ prev.biomarkers = MET_RAW_ZERO_DENOMINATORS
    /\ ZeroAt(prev.biomarkers, K_HDL_cholesterol)
    /\ ~ZeroAt(biomarkers, K_HDL_cholesterol)
    /\ Len(biomarkers) = Len(prev.biomarkers) - 1
    /\ result.components.tg_hdl_ratio = None

\* the z-scores the facade called in this state computes
MetZ == met_calculate_z_scores(met_derived(met_convert_units(biomarkers)))
InfMarkers == extract_inflammation_biomarkers(biomarkers)
InfZ == inf_calculate_z_scores(InfMarkers, is_menstruating)
OxyMarkers == extract_oxygen_biomarkers(biomarkers)
OxyZ == oxy_calculate_z_scores(OxyMarkers)

\* z is null for a null value, and otherwise the distance q when q is above 0
\* and 0 when it is not
OneTailed(z, value, q) ==
    IF value = None THEN z = None
    ELSE /\ z # None
         /\ RLe(Whole(0), z)
         /\ IF RLt(Whole(0), q) THEN z = q ELSE z = Whole(0)

Above(value, mean, sd) == IF value = None THEN None ELSE RDiv(RSub(value, mean), sd)
Below(value, mean, sd) == IF value = None THEN None ELSE RDiv(RSub(mean, value), sd)

InfMeans == IF is_menstruating THEN PREMENOPAUSAL_MEANS ELSE POSTMENOPAUSAL_MEANS
InfSds == IF is_menstruating THEN PREMENOPAUSAL_SDS ELSE POSTMENOPAUSAL_SDS

\* C21: a marker that is present has the z-score max(0, (value - mean) / sd)
\* in the metabolic and the inflammation pipeline and max(0, (mean - value) /
\* sd) in the oxygen pipeline, never below 0; a marker that is absent has the
\* z-score null, not 0.
ZScoresOneTailed ==
    /\ (Called /\ facade = "metabolic") =>
          \A d \in {met_derived(met_convert_units(biomarkers))} :
             \A m \in DOMAIN MetZ :
                OneTailed(MetZ[m], d[m],
                          Above(d[m], MET_POPULATION_STATS[m].mean,
                                MET_POPULATION_STATS[m].sd))
    /\ (Called /\ facade = "inflammation" /\ result # Raised) =>
          \A m \in DOMAIN InfZ :
             OneTailed(InfZ[m], InfMarkers[m],
                       Above(InfMarkers[m], InfMeans[m], InfSds[m]))
    /\ (Called /\ facade = "oxygen" /\ result # Raised) =>
          \A m \in DOMAIN OxyZ :
             OneTailed(OxyZ[m], OxyMarkers[m],
                       Below(OxyMarkers[m], OXY_MEANS[m], OXY_SDS[m]))

\* an inflammation result for a panel with ferritin below the mean and
\* another marker absent
FerritinBelowMeanScored ==
    /\ facade = "inflammation"
    /\ Returned
    /\ InfMarkers.ferritin # None
    /\ RLt(InfMarkers.ferritin, InfMeans.ferritin)
    /\ InfZ.ferritin = Whole(0)
    /\ \E m \in DOMAIN InfZ : InfMarkers[m] = None /\ InfZ[m] = None

\* weight[m] * z[m] for a z-score that is not null, 0 for a null one
Term(z, w, m) == IF z[m] = None THEN Whole(0) ELSE RMul(w[m], z[m])

\* the sum of weight[m] * z[m] over the four markers ms
PenaltySum(z, w, ms) ==
    RAdd(RAdd(Term(z, w, ms[1]), Term(z, w, ms[2])),
         RAdd(Term(z, w, ms[3]), Term(z, w, ms[4])))

Share(z, w, m) == IF z[m] = None THEN Whole(0) ELSE w[m]

\* the sum of the weights of the markers whose z-score is not null
WeightSum(z, w, ms) ==
    RAdd(RAdd(Share(z, w, ms[1]), Share(z, w, ms[2])),
         RAdd(Share(z, w, ms[3]), Share(z, w, ms[4])))

AllWeight(w, ms) == RAdd(RAdd(w[ms[1]], w[ms[2]]), RAdd(w[ms[3]], w[ms[4]]))

\* 100 - scale * penalty between 0 and 100, to one decimal
Scored(penalty, scale) ==
    Round1(RMax(Whole(0), RMin(Whole(100), RSub(Whole(100), RMul(Whole(scale), penalty)))))

\* C22: the metabolic combiner divides the penalty by the weight of the
\* markers used when that weight is below 1; the inflammation and the oxygen
\* combiner take the weighted sum as it is, whatever markers are missing.
OnlyMetabolicRenormalizes ==
    /\ (Returned /\ facade = "metabolic") =>
          \A tw \in {WeightSum(MetZ, MET_WEIGHTS, MET_MARKERS)} :
             result.score =
                Scored(IF RLt(tw, Whole(1))
                       THEN RDiv(PenaltySum(MetZ, MET_WEIGHTS, MET_MARKERS), tw)
                       ELSE PenaltySum(MetZ, MET_WEIGHTS, MET_MARKERS), MET_SCALE)
    /\ (Returned /\ facade = "inflammation") =>
          result.score = Scored(PenaltySum(InfZ, INF_WEIGHTS, INF_MARKERS),
                                INF_SEVERITY_SCALE)
    /\ (Returned /\ facade = "oxygen") =>
          result.score = Scored(PenaltySum(OxyZ, OXY_WEIGHTS, OXY_MARKERS),
                                OXY_SEVERITY_SCALE)

\* a metabolic result from fewer than four markers whose score is lower than
\* the weighted sum alone would make it
PenaltyDivided ==
    /\ facade = "metabolic"
    /\ Returned
    /\ result.markers_used < 4
    /\ RLt(result.score,
           Scored(PenaltySum(MetZ, MET_WEIGHTS, MET_MARKERS), MET_SCALE))

\* score and bound differ by at most 1/20
Nearest(score, bound) ==
    /\ RLe(RSub(score, bound), <<1, 20>>)
    /\ RLe(RSub(bound, score), <<1, 20>>)

\* x between 0 and 100
Limited(x) == RMax(Whole(0), RMin(Whole(100), x))

\* a number of tenths
OneDecimal(score) == 10 % score[2] = 0

\* the penalty P of the facade called in this state
PenaltyP ==
    CASE facade = "metabolic" ->
            IF RLt(WeightSum(MetZ, MET_WEIGHTS, MET_MARKERS), Whole(1))
            THEN RDiv(PenaltySum(MetZ, MET_WEIGHTS, MET_MARKERS),
                      WeightSum(MetZ, MET_WEIGHTS, MET_MARKERS))
            ELSE PenaltySum(MetZ, MET_WEIGHTS, MET_MARKERS)
      [] facade = "inflammation" -> PenaltySum(InfZ, INF_WEIGHTS, INF_MARKERS)
      [] facade = "oxygen" -> PenaltySum(OxyZ, OXY_WEIGHTS, OXY_MARKERS)

SeverityS ==
    CASE facade = "metabolic" -> 15
      [] facade = "inflammation" -> 18
      [] facade = "oxygen" -> 22

\* C24: the score of a returned result is 100 - S * P kept between 0 and 100
\* and rounded to one decimal, where P is the weighted sum of the z-scores
\* that are not null (renormalised in the metabolic pipeline only) and S is
\* 15 for metabolic, 18 for inflammation and 22 for oxygen; the four weights
\* of each pipeline sum to 1.
ScoreFormula ==
    /\ AllWeight(MET_WEIGHTS, MET_MARKERS) = Whole(1)
    /\ AllWeight(INF_WEIGHTS, INF_MARKERS) = Whole(1)
    /\ AllWeight(OXY_WEIGHTS, OXY_MARKERS) = Whole(1)
    /\ MET_SCALE = 15 /\ INF_SEVERITY_SCALE = 18 /\ OXY_SEVERITY_SCALE = 22
    /\ Returned =>
          /\ OneDecimal(result.score)
          /\ Nearest(result.score,
                     Limited(RSub(Whole(100), RMul(Whole(SeverityS), PenaltyP))))

\* a result whose score is neither 0 nor 100 and differs from 100 - S * P
\* by the rounding
ScoreRounded ==
    /\ Returned
    /\ RLt(Whole(0), result.score)
    /\ RLt(result.score, Whole(100))
    /\ result.score # RSub(Whole(100), RMul(Whole(SeverityS), PenaltyP))

-----------------------------------------------------------------------------
(* The three calculate_score functions called on their own, on z-scores    *)
(* given by the caller.                                                    *)
(*   combiner : the class whose calculate_score is called                  *)
(*   given_z  : the z-scores passed, one per marker of the class, or None  *)
(*   combined : the pair returned; NotCalled before the call               *)
(*   interpreted : what get_interpretation makes of the score returned     *)

\* no panel is being scored through a facade
CallerIdle ==
    /\ facade = "none"
    /\ biomarkers = <<>>
    /\ is_menstruating = TRUE
    /\ result = NotCalled
    /\ prev = NoPrev
    /\ edits = 0

\* 1 and 7/3 put the metabolic score on 85 and 65, 10/9 and 20/9 the
\* inflammation score on 80 and 60, 10/11 and 20/11 the oxygen score
ZValues ==
    {None, Whole(0), Whole(1), <<7, 3>>, <<10, 9>>, <<20, 9>>, <<10, 11>>,
     <<20, 11>>, Whole(10)}

MarkersOf(c) ==
    CASE c = "metabolic" -> MET_MARKERS
      [] c = "inflammation" -> INF_MARKERS
      [] c = "oxygen" -> OXY_MARKERS

Range(seq) == {seq[i] : i \in 1..Len(seq)}

Pair(sc) == [score |-> sc[1], markers_used |-> sc[2]]

InitCombine ==
    /\ CallerIdle
    /\ ApiIdle
    /\ CoachIdle
    /\ combiner \in Facades
    /\ given_z \in [Range(MarkersOf(combiner)) -> ZValues]
    /\ combined = NotCalled
    /\ interpreted = NotCalled

MetCalculateScore ==
    /\ combiner = "metabolic"
    /\ combined = NotCalled
    /\ combined' = Pair(met_calculate_score(given_z))
    /\ UNCHANGED <<combiner, given_z, interpreted>>
    /\ UNCHANGED <<caller_vars, api_vars, coach_vars>>

InfCalculateScore ==
    /\ combiner = "inflammation"
    /\ combined = NotCalled
    /\ combined' = Pair(inf_calculate_score(given_z))
    /\ UNCHANGED <<combiner, given_z, interpreted>>
    /\ UNCHANGED <<caller_vars, api_vars, coach_vars>>

OxyCalculateScore ==
    /\ combiner = "oxygen"
    /\ combined = NotCalled
    /\ combined' = Pair(oxy_calculate_score(given_z))
    /\ UNCHANGED <<combiner, given_z, interpreted>>
    /\ UNCHANGED <<caller_vars, api_vars, coach_vars>>

get_interpretation(c, score) ==
    CASE c = "metabolic" -> met_get_interpretation(score)
      [] c = "inflammation" -> inf_get_interpretation(score)
      [] c = "oxygen" -> oxy_get_interpretation(score)

\* get_interpretation of the class on a score its calculate_score returned
GetInterpretation ==
    /\ combined # NotCalled
    /\ combined.score # None
    /\ interpreted = NotCalled
    /\ interpreted' = get_interpretation(combiner, combined.score)
    /\ UNCHANGED <<combiner, given_z, combined>>
    /\ UNCHANGED <<caller_vars, api_vars, coach_vars>>

NextCombine ==
    MetCalculateScore \/ InfCalculateScore \/ OxyCalculateScore \/ GetInterpretation
SpecCombine == InitCombine /\ [][NextCombine]_vars

\* C23: calculate_score called with no z-score that is not null returns a
\* null score with markers_used = 0; no combiner returns a number as the
\* score together with markers_used = 0.
NoScoreWithoutMarkers ==
    combined # NotCalled =>
        /\ (\A m \in DOMAIN given_z : given_z[m] = None) =>
               combined.score = None /\ combined.markers_used = 0
        /\ combined.markers_used = 0 => combined.score = None

\* the bounds of the bands of a pipeline
OptimalFrom(c) == IF c = "metabolic" THEN 85 ELSE 80
GoodFrom(c) == IF c = "metabolic" THEN 65 ELSE 60

\* the level the bands of the pipeline give a score
BandOf(c, score) ==
    IF RLe(Whole(OptimalFrom(c)), score) THEN "optimal"
    ELSE IF RLe(Whole(GoodFrom(c)), score) /\ RLt(score, Whole(OptimalFrom(c)))
    THEN "good"
    ELSE "needs_improvement"

\* a score inside the band of a level
ScoreIn(c, level) ==
    CASE level = "optimal" -> Whole(100)
      [] level = "good" -> Whole(OptimalFrom(c) - 1)
      [] level = "needs_improvement" -> Whole(0)

\* level, description and summary are those of the band the score is in
Banded(c, score, given) ==
    /\ given.level = BandOf(c, score)
    /\ given.description = get_interpretation(c, ScoreIn(c, given.level)).description
    /\ given.summary = get_interpretation(c, ScoreIn(c, given.level)).summary

\* C25: the level follows from the score alone: from 85 on optimal, from 65
\* on good and below 65 needs_improvement in the metabolic pipeline, with 80
\* and 60 in the inflammation and the oxygen pipeline; 85, 65, 80 and 60
\* belong to the higher band; description and summary are fixed by pipeline
\* and level, whatever the panel and is_menstruating.
InterpreterBands ==
    /\ interpreted # NotCalled => Banded(combiner, combined.score, interpreted)
    /\ (facade \in Facades /\ Returned /\ result # Raised) =>
          Banded(facade, result.score, result)

\* a score on the lower bound of a band has been interpreted
BoundaryInterpreted ==
    /\ interpreted # NotCalled
    /\ combined.score \in {Whole(OptimalFrom(combiner)), Whole(GoodFrom(combiner))}
    /\ interpreted.level = (IF combined.score = Whole(GoodFrom(combiner))
                            THEN "good" ELSE "optimal")

-----------------------------------------------------------------------------
(* A caller of compute_inflammation_score who scores a panel and then      *)
(* scores it again with the other value of is_menstruating.                *)

SetMenstruating ==
    /\ facade = "inflammation"
    /\ result # NotCalled
    /\ edits < MaxEdits
    /\ is_menstruating' = ~is_menstruating
    /\ prev' = [biomarkers |-> biomarkers, is_menstruating |-> is_menstruating,
                result |-> result]
    /\ result' = NotCalled
    /\ edits' = edits + 1
    /\ UNCHANGED <<biomarkers, facade>>
    /\ UNCHANGED <<api_vars, unit_vars, coach_vars>>

NextFlag == CallInflammation \/ SetValue \/ SetMenstruating
SpecFlag == InitInf /\ [][NextFlag]_vars

\* the panel has been scored with both values of is_menstruating
BothFlagsScored ==
    /\ facade = "inflammation"
    /\ prev # NoPrev
    /\ Called
    /\ prev.biomarkers = biomarkers
    /\ prev.is_menstruating # is_menstruating

\* the result for is_menstruating = TRUE and the one for FALSE
WithFlag(b) == IF is_menstruating = b THEN result ELSE prev.result

\* C27: the inflammation score of a panel with is_menstruating = False is
\* never lower than its score with is_menstruating = True, markers_used is
\* the same in both results, and the is_menstruating of a result is the flag
\* that was passed.
NonMenstruatingNeverLower ==
    /\ (facade = "inflammation" /\ Returned) =>
          result.is_menstruating = is_menstruating
    /\ BothFlagsScored =>
          /\ (WithFlag(TRUE) = NullResult) <=> (WithFlag(FALSE) = NullResult)
          /\ Returned =>
                /\ RLe(WithFlag(TRUE).score, WithFlag(FALSE).score)
                /\ WithFlag(TRUE).markers_used = WithFlag(FALSE).markers_used

\* both calls returned a result and the score without menstruation is the
\* higher one
FlagChangedScore ==
    /\ BothFlagsScored
    /\ Returned
    /\ RLt(WithFlag(TRUE).score, WithFlag(FALSE).score)
    /\ WithFlag(TRUE).is_menstruating = TRUE
    /\ WithFlag(FALSE).is_menstruating = FALSE

-----------------------------------------------------------------------------
(* A caller of compute_inflammation_score or compute_oxygen_score who      *)
(* scores a panel, takes one entry out and scores the rest.                *)

INF_PANEL_SEVERE ==
    <<E(<<"h", "s", "C", "R", "P">>, Str(<<"9", "0", "0", "0", " ", "m", "g", "/", "L">>)), E(<<"E", "S", "R">>, Str(<<"3", "5", " ", "m", "m", "/", "h">>)),
      E(<<"f", "e", "r", "r", "i", "t", "i", "n">>, Str(<<"1", "0", "1", " ", "mu", "g", "/", "L">>)), E(<<"W", "B", "C">>, Str(<<"6", ".", "0", " ", "x", "1", "0", "^", "9", "/", "L">>))>>
INF_PANEL_NEAR_MEAN ==
    <<E(<<"h", "s", "C", "R", "P">>, Str(<<"0", ".", "4", " ", "m", "g", "/", "L">>)), E(<<"E", "S", "R">>, Str(<<"1", "0", " ", "m", "m", "/", "h">>)),
      E(<<"f", "e", "r", "r", "i", "t", "i", "n">>, Str(<<"1", "0", "0", ".", "5", " ", "mu", "g", "/", "L">>)), E(<<"W", "B", "C">>, Str(<<"6", ".", "0", " ", "x", "1", "0", "^", "9", "/", "L">>))>>
OXY_PANEL_SEVERE ==
    <<E(<<"h", "e", "m", "o", "g", "l", "o", "b", "i", "n">>, Str(<<"4", ".", "0", " ", "g", "/", "d", "L">>)), E(<<"h", "e", "m", "a", "t", "o", "c", "r", "i", "t">>, Str(<<"1", "5", " ", "%">>)),
      E(<<"r", "b", "c">>, Str(<<"2", ".", "0", " ", "x", "1", "0", "^", "1", "2", "/", "L">>)), E(<<"i", "r", "o", "n">>, Str(<<"8", "9", " ", "mu", "g", "/", "d", "L">>))>>
OXY_PANEL_NEAR_MEAN ==
    <<E(<<"h", "e", "m", "o", "g", "l", "o", "b", "i", "n">>, Str(<<"1", "6", ".", "0", " ", "g", "/", "d", "L">>)), E(<<"h", "e", "m", "a", "t", "o", "c", "r", "i", "t">>, Str(<<"4", "8", " ", "%">>)),
      E(<<"r", "b", "c">>, Str(<<"5", ".", "2", " ", "x", "1", "0", "^", "1", "2", "/", "L">>)), E(<<"i", "r", "o", "n">>, Str(<<"8", "9", ".", "9", " ", "mu", "g", "/", "d", "L">>))>>

RemovalPanels(f) ==
    IF f = "inflammation"
    THEN {INF_PANEL_OPTIMAL, INF_PANEL_HIGH, INF_PANEL_PARTIAL, INF_PANEL_ALIASES,
          INF_PANEL_SEVERE, INF_PANEL_NEAR_MEAN, INF_RAW_TWO_ALIASES,
          INF_RAW_UNPARSEABLE}
    ELSE {OXY_PANEL_HIGH, OXY_PANEL_GOOD, OXY_PANEL_POOR, OXY_PANEL_PARTIAL,
          OXY_PANEL_ALIASES, OXY_PANEL_SEVERE, OXY_PANEL_NEAR_MEAN,
          OXY_RAW_TWO_ALIASES, OXY_RAW_UNPARSEABLE}

InitRemove ==
    /\ facade \in {"inflammation", "oxygen"}
    /\ biomarkers \in RemovalPanels(facade)
    /\ is_menstruating \in (IF facade = "inflammation" THEN BOOLEAN ELSE {TRUE})
    /\ result = NotCalled
    /\ prev = NoPrev
    /\ edits = 0
    /\ ApiIdle
    /\ UnitIdle
    /\ CoachIdle

NextRemove == CallInflammation \/ CallOxygen \/ RemoveEntry
SpecRemove == InitRemove /\ [][NextRemove]_vars

\* the markers the extractor of the facade resolves in a panel
ResolvedIn(panel) ==
    IF facade = "inflammation" THEN extract_inflammation_biomarkers(panel)
    ELSE extract_oxygen_biomarkers(panel)

\* the z-scores of the call before the entry was taken out
PrevZ ==
    IF facade = "inflammation"
    THEN inf_calculate_z_scores(ResolvedIn(prev.biomarkers), prev.is_menstruating)
    ELSE oxy_calculate_z_scores(ResolvedIn(prev.biomarkers))

\* marker m was resolved in the panel scored before and is not resolved in
\* the panel scored now, and every other marker has the value it had
Removed(m) ==
    \A now \in {ResolvedIn(biomarkers)} : \A before \in {ResolvedIn(prev.biomarkers)} :
        /\ before[m] # None
        /\ now[m] = None
        /\ \A o \in DOMAIN now \ {m} : now[o] = before[o]

\* both calls returned a result and one marker went with the entry
MarkerRemoved(m) ==
    /\ facade \in {"inflammation", "oxygen"}
    /\ Compared
    /\ result # Raised /\ prev.result # Raised
    /\ Len(biomarkers) = Len(prev.biomarkers) - 1
    /\ Removed(m)

RemovableMarkers == IF facade = "inflammation" THEN Range(INF_MARKERS) ELSE Range(OXY_MARKERS)

\* the score before the removal was held at 0 by the clamp
WasClamped == prev.result.score = Whole(0)

Rises == RLt(prev.result.score, result.score)

\* C28 as stated: taking one marker out of an inflammation or oxygen panel
\* that keeps 2 resolved markers never lowers the score and lowers
\* markers_used by exactly 1, and the score rises exactly when the marker
\* had a positive z-score and the score was not clamped.
RemovalRaisesUnlessClamped ==
    \A m \in RemovableMarkers :
        MarkerRemoved(m) =>
            /\ RLe(prev.result.score, result.score)
            /\ result.markers_used = prev.result.markers_used - 1
            /\ Rises <=> (RLt(Whole(0), PrevZ[m]) /\ ~WasClamped)

\* C28, amended: taking one marker out never lowers the score and lowers
\* markers_used by exactly 1; the score rises only when the marker had a
\* positive z-score, and with a positive z-score it rises unless it is 0
\* after the removal too or the difference is below the rounding to one
\* decimal.
RemovalNeverLowers ==
    \A m \in RemovableMarkers :
        MarkerRemoved(m) =>
            /\ RLe(prev.result.score, result.score)
            /\ result.markers_used = prev.result.markers_used - 1
            /\ Rises => RLt(Whole(0), PrevZ[m])
            /\ PrevZ[m] = Whole(0) => result.score = prev.result.score

\* a marker with a positive z-score was taken out and the score rose
RemovalRaisedScore ==
    \E m \in RemovableMarkers :
        /\ MarkerRemoved(m)
        /\ RLt(Whole(0), PrevZ[m])
        /\ Rises
        /\ result.markers_used >= 2

-----------------------------------------------------------------------------
(* HealthCoach: the conversation with the language model.                  *)
(*   messages  : self.messages                                             *)
(*   iteration : the loop counter of _generate_with_tools                  *)
(*   pc        : "none" no coach, "constructed", "ready" with a profile,   *)
(*               "loop" inside _generate_with_tools, "done" after return   *)
(*   requests  : the chat.completions.create calls made, in order: the     *)
(*               message list sent and whether tools were offered          *)
(*   reply     : the last answer of the model; NoReply before one          *)
(*   returned  : what generate_recommendations returned                    *)
(*   forced    : how many times _force_final_response was called           *)

max_iterations == 6
TRIM_ABOVE == 15
TRIM_KEEP == 12
FINAL_KEEP == 10

Message(role) == [role |-> role, tool_calls |-> <<>>, tool_call_id |-> 0]

\* _add_assistant_message: the assistant message carrying the tool calls
AssistantMessage(tool_calls) ==
    [role |-> "assistant", tool_calls |-> [i \in 1..Len(tool_calls) |-> tool_calls[i].id],
     tool_call_id |-> 0]

\* the message _execute_tool_calls appends for one executed call
ToolMessage(tool_call) ==
    [role |-> "tool", tool_calls |-> <<>>, tool_call_id |-> tool_call.id]

\* messages[-n:]
Last(msgs, n) ==
    IF Len(msgs) <= n THEN msgs ELSE SubSeq(msgs, Len(msgs) - n + 1, Len(msgs))

\* the system message plus the last n messages
SystemAndLast(msgs, n) == <<msgs[1]>> \o Last(msgs, n)

\* the whole history sent untrimmed: the variant _trim_messages is compared with
untrimmed(msgs) == msgs

_trim_messages(msgs) ==
    IF Len(msgs) > TRIM_ABOVE THEN SystemAndLast(msgs, TRIM_KEEP) ELSE msgs

\* a tool call of a response: its id, the function it names and whether its
\* arguments are JSON
ToolCall(n, name, json) == [id |-> n, name |-> name, json |-> json]

\* the tool calls a response may carry, i numbering the response
ToolCallLists(i) ==
    {<<ToolCall(10 * i + 1, "web_search", TRUE)>>,
     <<ToolCall(10 * i + 1, "reddit_search", TRUE)>>,
     <<ToolCall(10 * i + 1, "web_search", TRUE), ToolCall(10 * i + 2, "reddit_search", TRUE)>>,
     <<ToolCall(10 * i + 1, "web_search", TRUE), ToolCall(10 * i + 2, "web_search", TRUE),
       ToolCall(10 * i + 3, "reddit_search", TRUE)>>,
     <<ToolCall(10 * i + 1, "pubmed_search", TRUE)>>,
     <<ToolCall(10 * i + 1, "web_search", TRUE), ToolCall(10 * i + 2, "web_search", FALSE)>>}

\* what chat.completions.create may do: raise, or answer with tool calls,
\* with a text, or with neither
Raise == [received |-> TRUE, raised |-> TRUE, tool_calls |-> <<>>, content |-> FALSE]
Answer(tool_calls, content) ==
    [received |-> TRUE, raised |-> FALSE, tool_calls |-> tool_calls, content |-> content]

Replies(i) ==
    {Raise, Answer(<<>>, TRUE), Answer(<<>>, FALSE)}
        \cup {Answer(tc, FALSE) : tc \in ToolCallLists(i)}

Returns(text) == [returned |-> TRUE, value |-> text]

\* _execute_tool_calls over tool_calls[k..]: the messages afterwards, and
\* whether json.loads raised on the way
RECURSIVE execute_tool_calls(_, _, _)
execute_tool_calls(msgs, tool_calls, k) ==
    IF k > Len(tool_calls) THEN [messages |-> msgs, raised |-> FALSE]
    ELSE IF ~tool_calls[k].json THEN [messages |-> msgs, raised |-> TRUE]
    ELSE IF tool_calls[k].name \in {"web_search", "reddit_search"}
    THEN execute_tool_calls(Append(msgs, ToolMessage(tool_calls[k])), tool_calls, k + 1)
    ELSE execute_tool_calls(msgs, tool_calls, k + 1)

\* HealthCoach() of a caller
InitCoach ==
    /\ CallerIdle
    /\ ApiIdle
    /\ UnitIdle
    /\ messages = <<>>
    /\ iteration = 0
    /\ pc = "constructed"
    /\ requests = <<>>
    /\ reply = NoReply
    /\ returned = NotReturned
    /\ forced = 0

set_health_profile ==
    /\ pc = "constructed"
    /\ messages' = <<Message("system")>>
    /\ pc' = "ready"
    /\ UNCHANGED <<iteration, requests, reply, returned, forced>>
    /\ UNCHANGED <<caller_vars, api_vars, unit_vars>>

\* generate_recommendations without a profile returns at once
generate_without_profile ==
    /\ pc = "constructed"
    /\ returned' = Returns("Error: No health profile set. Call set_health_profile() first.")
    /\ pc' = "done"
    /\ UNCHANGED <<messages, iteration, requests, reply, forced>>
    /\ UNCHANGED <<caller_vars, api_vars, unit_vars>>

\* generate_recommendations up to the loop of _generate_with_tools
generate_recommendations ==
    /\ pc = "ready"
    /\ messages' = Append(messages, Message("user"))
    /\ iteration' = 0
    /\ pc' = "loop"
    /\ UNCHANGED <<requests, reply, returned, forced>>
    /\ UNCHANGED <<caller_vars, api_vars, unit_vars>>

\* the loop runs one pass more: the variant InLoop is compared with
InLoopOneMore(i) == i <= max_iterations

\* "while iteration < max_iterations"
InLoop(i) == i < max_iterations

\* the history after a response with tool calls has been handled
AfterToolCalls(done, i) ==
    IF i >= max_iterations - 2 THEN Append(done, Message("user")) ELSE done

\* one pass of the while loop of _generate_with_tools
research_step ==
    /\ pc = "loop"
    /\ InLoop(iteration)
    /\ iteration' = iteration + 1
    /\ requests' = Append(requests, [tools |-> TRUE, messages |-> _trim_messages(messages)])
    /\ \E r \in Replies(iteration + 1) :
          /\ reply' = r
          /\ IF r.raised THEN
                /\ returned' = Returns("Error generating response")
                /\ pc' = "done"
                /\ UNCHANGED messages
             ELSE IF r.tool_calls # <<>> THEN
                \E e \in {execute_tool_calls(Append(messages, AssistantMessage(r.tool_calls)),
                                             r.tool_calls, 1)} :
                   IF e.raised THEN
                      /\ messages' = e.messages
                      /\ returned' = Returns("Error generating response")
                      /\ pc' = "done"
                   ELSE
                      /\ messages' = AfterToolCalls(e.messages, iteration + 1)
                      /\ UNCHANGED <<returned, pc>>
             ELSE
                /\ messages' = Append(messages, Message("assistant"))
                /\ returned' = Returns(IF r.content THEN "content"
                                       ELSE "Error: Model returned empty response")
                /\ pc' = "done"
    /\ UNCHANGED forced
    /\ UNCHANGED <<caller_vars, api_vars, unit_vars>>

\* the failsafe after the loop
_force_final_response ==
    /\ pc = "loop"
    /\ ~InLoop(iteration)
    /\ forced' = forced + 1
    /\ requests' = Append(requests,
          [tools |-> FALSE,
           messages |-> Append(SystemAndLast(messages, FINAL_KEEP), Message("user"))])
    /\ \E r \in {Raise, Answer(<<>>, TRUE), Answer(<<>>, FALSE)} :
          /\ reply' = r
          /\ returned' = Returns(
                IF r.raised THEN "Error generating response"
                ELSE IF r.content THEN "content"
                ELSE "Error: Unable to generate final response after maximum iterations")
    /\ pc' = "done"
    /\ UNCHANGED <<messages, iteration>>
    /\ UNCHANGED <<caller_vars, api_vars, unit_vars>>

NextCoach ==
    \/ set_health_profile
    \/ generate_without_profile
    \/ generate_recommendations
    \/ research_step
    \/ _force_final_response
SpecCoach == InitCoach /\ [][NextCoach]_vars

\* the code is sequential and every call to the model has a timeout
\* (timeout=180.0), so a step that can be taken is taken
SpecCoachFair == SpecCoach /\ WF_vars(NextCoach)

\* the number of requests made with (without) tools offered
RECURSIVE CountRequests(_, _, _)
CountRequests(reqs, tools, k) ==
    IF k > Len(reqs) THEN 0
    ELSE (IF reqs[k].tools = tools THEN 1 ELSE 0) + CountRequests(reqs, tools, k + 1)

ToolEnabledCalls == CountRequests(requests, TRUE, 1)
PlainCalls == CountRequests(requests, FALSE, 1)

\* the last answer of the model came without tool calls
AnsweredWithoutToolCalls ==
    reply # NoReply /\ ~reply.raised /\ reply.tool_calls = <<>>

LoopBounded ==
    /\ ToolEnabledCalls <= 6
    /\ AnsweredWithoutToolCalls => pc = "done"
    /\ forced <= 1
    /\ PlainCalls = forced
    /\ forced = 1 => ToolEnabledCalls = 6
    /\ pc = "done" => returned # NotReturned /\ returned.value \in STRING
    /\ pc # "done" => returned = NotReturned

\* all the passes of the loop have been made and each answer carried tool calls
LoopExhausted == pc = "loop" /\ iteration = 6

WellFormed(msgs) ==
    /\ Len(msgs) > 0
    /\ msgs[1].role = "system"
    /\ \A j \in 1..Len(msgs) :
          msgs[j].role = "tool" =>
             \E i \in 1..(j - 1) :
                /\ msgs[i].role = "assistant"
                /\ \E c \in 1..Len(msgs[i].tool_calls) :
                      msgs[i].tool_calls[c] = msgs[j].tool_call_id

\* C30: every message list sent to the model starts with the system message
\* and has each tool message after the assistant message carrying its tool
\* call, whether _trim_messages or _force_final_response cut it.
SentListsWellFormed ==
    \A k \in 1..Len(requests) : WellFormed(requests[k].messages)

\* the two cuts taken apart
TrimmedListsWellFormed ==
    \A k \in 1..Len(requests) : requests[k].tools => WellFormed(requests[k].messages)
FinalListWellFormed ==
    \A k \in 1..Len(requests) : ~requests[k].tools => WellFormed(requests[k].messages)
StartsWithSystem ==
    \A k \in 1..Len(requests) : requests[k].messages[1].role = "system"

====
